---- MODULE Spec2Model ----
(***************************************************************************)
(* Model of minikube's service package (src/unnamed/part_000): the service *)
(* URL resolver, the readiness poller, the exposure orchestrator, the      *)
(* HTTPS-upgrade helper and the secret lifecycle operations.               *)
(*                                                                         *)
(* Strings that are parsed, rewritten or rendered are sequences of         *)
(* one-character strings, so that url.Parse, strings.Replace and template  *)
(* rendering are computed and not assumed.                                 *)
(***************************************************************************)
EXTENDS Integers, Sequences, FiniteSets, TLC

VARIABLES
    urlIn,      \* bareURLString handed to OptionallyHTTPSFormattedURLString
    urlOut,     \* per https flag: the (string, bool) pair returned, <<>> before the call
    services,   \* the cluster: service name -> Service object, or NoObject
    endpoints,  \* the cluster: service name -> Endpoints object, or NoObject
    resArgs,    \* printURLsForService: its arguments and the API calls that fail
    resOut,     \* printURLsForService: the (SvcURL, error) pairs returned so far
    args,       \* WaitAndMaybeOpenService: its arguments
    pc,         \* WaitAndMaybeOpenService: where the call is
    elapsed,    \* retry.Expo: seconds slept so far
    sleep,      \* retry.Expo: the next back-off interval, in seconds
    pollLog,    \* one entry per CheckService call: what it saw and returned
    resolverCalls, \* number of GetServiceURLsForService calls made
    resolved,   \* what the last GetServiceURLsForService call met
    serviceURL, \* the SvcURL the resolver returned
    idx,        \* position of the URL loop in serviceURL.URLs
    events,     \* everything printed and every browser launch, in order
    ret,        \* the error WaitAndMaybeOpenService returned
    listArgs,   \* GetServiceURLs: its template argument
    listPc,     \* GetServiceURLs: where the call is
    svcs,       \* GetServiceURLs: the items Services.List answered
    serviceURLs, \* GetServiceURLs: the SvcURL objects appended so far
    listRet,    \* GetServiceURLs: the (URLs, error) pair returned
    addon,      \* the *Addon IsEnabled is called on, as NewAddon built it
    config,     \* the persisted configuration config.Get reads
    isEnabledOut, \* Addon.IsEnabled: the (bool, error) pair returned
    secrets,    \* the cluster: the set of Secret objects of the namespace
    callers,    \* per caller: where its CreateSecret call is, and its arguments
    secLog      \* the CreateSecret and DeleteSecret calls that returned, in order

urlVars == <<urlIn, urlOut>>
clusterVars == <<services, endpoints>>
resVars == <<resArgs, resOut>>
orchVars == <<args, pc, elapsed, sleep, pollLog, resolverCalls, resolved, serviceURL, idx,
              events, ret>>
vars == <<urlIn, urlOut, services, endpoints, resArgs, resOut,
          args, pc, elapsed, sleep, pollLog, resolverCalls, resolved, serviceURL, idx,
          events, ret, listArgs, listPc, svcs, serviceURLs, listRet,
          addon, config, isEnabledOut, secrets, callers, secLog>>
secVars == <<secrets, callers, secLog>>
listVars == <<listArgs, listPc, svcs, serviceURLs, listRet>>
addonVars == <<addon, config, isEnabledOut>>

\* an object the cluster does not hold (Get answers NotFound)
NoObject == [absent |-> TRUE]

\* the one namespace the model looks at
Namespace == "default"

SvcURL(namespace, name, urls, portNames) ==
    [Namespace |-> namespace, Name |-> name, URLs |-> urls, PortNames |-> portNames]

\* SvcURL{}
EmptySvcURL == SvcURL("", "", <<>>, <<>>)

\* before the resolver is called
NothingResolved == [fail |-> {}, svc |-> NoObject]

\* WaitAndMaybeOpenService is not running
OrchIdle ==
    /\ args = <<>>
    /\ pc = "idle"
    /\ elapsed = 0
    /\ sleep = 0
    /\ pollLog = <<>>
    /\ resolverCalls = 0
    /\ resolved = NothingResolved
    /\ serviceURL = EmptySvcURL
    /\ idx = 0
    /\ events = <<>>
    /\ ret = <<>>

\* a result slot before the call that fills it
NotCalled == <<>>

\* no addon is looked at
AddonIdle ==
    /\ addon = <<>>
    /\ config = <<>>
    /\ isEnabledOut = NotCalled

\* GetServiceURLs is not running
ListIdle ==
    /\ listArgs = <<>>
    /\ listPc = "idle"
    /\ svcs = <<>>
    /\ serviceURLs = <<>>
    /\ listRet = NotCalled

\* no secret operation is running and the namespace holds no secret
SecretsIdle ==
    /\ secrets = {}
    /\ callers = <<>>
    /\ secLog = <<>>

\* the service names of that namespace
SvcNames == {"web", "db"}

----------------------------------------------------------------------------
(* Characters.  The alphabet is restricted to letters, digits, the scheme  *)
(* punctuation "+", "-", ".", the colon and the slash: no "#", "?", "%",   *)
(* "@", "[", blank or control byte occurs in any string of the model.      *)

LowerLetters == {"h", "t", "p", "s", "x", "a", "b"}
UpperLetters == {"H", "T", "P"}
Letters == LowerLetters \cup UpperLetters
Digits == {"0", "1", "2", "3", "4", "5", "6", "7", "8", "9"}
SchemePunct == {"+", "-", "."}

\* strings.ToLower on one byte
ToLowerChar(c) ==
    CASE c = "H" -> "h"
      [] c = "T" -> "t"
      [] c = "P" -> "p"
      [] OTHER -> c

\* strings.ToLower
ToLower(s) == [i \in 1..Len(s) |-> ToLowerChar(s[i])]

\* strings.HasPrefix
HasPrefix(s, prefix) ==
    /\ Len(s) >= Len(prefix)
    /\ SubSeq(s, 1, Len(prefix)) = prefix

\* strings.Index, 1-based; 0 when sub does not occur in s
RECURSIVE IndexFrom(_, _, _)
IndexFrom(s, sub, i) ==
    IF i + Len(sub) - 1 > Len(s) THEN 0
    ELSE IF SubSeq(s, i, i + Len(sub) - 1) = sub THEN i
    ELSE IndexFrom(s, sub, i + 1)

Index(s, sub) == IndexFrom(s, sub, 1)

\* strings.LastIndex, 1-based; 0 when sub does not occur in s
RECURSIVE LastIndexFrom(_, _, _)
LastIndexFrom(s, sub, i) ==
    IF i < 1 THEN 0
    ELSE IF i + Len(sub) - 1 <= Len(s) /\ SubSeq(s, i, i + Len(sub) - 1) = sub THEN i
    ELSE LastIndexFrom(s, sub, i - 1)

LastIndex(s, sub) == LastIndexFrom(s, sub, Len(s))

\* strings.Replace(s, old, new, 1): only the first occurrence is replaced
ReplaceFirst(s, old, new) ==
    LET i == Index(s, old) IN
    IF i = 0 THEN s
    ELSE SubSeq(s, 1, i - 1) \o new \o SubSeq(s, i + Len(old), Len(s))

----------------------------------------------------------------------------
(* net/url.Parse, as far as its error result and its Scheme field go.      *)

\* url.getScheme: scans for the first colon; letters may precede it, digits
\* and "+-." may precede it except in first place, anything else means
\* "no scheme"; a colon in first place is an error.
RECURSIVE getSchemeFrom(_, _)
getSchemeFrom(rawURL, i) ==
    IF i > Len(rawURL)
    THEN [err |-> FALSE, scheme |-> <<>>, rest |-> rawURL]
    ELSE LET c == rawURL[i] IN
         IF c \in Letters THEN getSchemeFrom(rawURL, i + 1)
         ELSE IF c \in Digits \cup SchemePunct
         THEN IF i = 1
              THEN [err |-> FALSE, scheme |-> <<>>, rest |-> rawURL]
              ELSE getSchemeFrom(rawURL, i + 1)
         ELSE IF c = ":"
         THEN IF i = 1
              THEN [err |-> TRUE, scheme |-> <<>>, rest |-> <<>>]
              ELSE [err |-> FALSE, scheme |-> SubSeq(rawURL, 1, i - 1),
                    rest |-> SubSeq(rawURL, i + 1, Len(rawURL))]
         ELSE [err |-> FALSE, scheme |-> <<>>, rest |-> rawURL]

getScheme(rawURL) == getSchemeFrom(rawURL, 1)

\* url.validOptionalPort: "" or ":" followed by digits only
validOptionalPort(port) ==
    \/ port = <<>>
    \/ /\ port[1] = ":"
       /\ \A i \in 2..Len(port) : port[i] \in Digits

\* url.parseAuthority / url.parseHost without userinfo and without brackets:
\* what follows the last colon of the authority must be a valid port
parseHostOK(authority) ==
    LET i == LastIndex(authority, <<":">>) IN
    i = 0 \/ validOptionalPort(SubSeq(authority, i, Len(authority)))

\* the authority of "//authority/path": up to the next slash
AuthorityOf(rest) ==
    LET afterSlashes == SubSeq(rest, 3, Len(rest))
        j == Index(afterSlashes, <<"/">>)
    IN  IF j = 0 THEN afterSlashes ELSE SubSeq(afterSlashes, 1, j - 1)

\* url.Parse: [err, Scheme]
urlParse(rawURL) ==
    LET g == getScheme(rawURL)
        scheme == ToLower(g.scheme)
        rest == g.rest
        colon == Index(rest, <<":">>)
        slash == Index(rest, <<"/">>)
    IN  IF g.err THEN [err |-> TRUE, Scheme |-> <<>>]
        ELSE IF ~HasPrefix(rest, <<"/">>) /\ scheme # <<>>
        THEN [err |-> FALSE, Scheme |-> scheme]            \* opaque URL
        ELSE IF ~HasPrefix(rest, <<"/">>) /\ colon > 0 /\ (slash = 0 \/ colon < slash)
        THEN [err |-> TRUE, Scheme |-> <<>>]   \* first path segment has a colon
        ELSE IF /\ scheme # <<>> \/ ~HasPrefix(rest, <<"/", "/", "/">>)
                /\ HasPrefix(rest, <<"/", "/">>)
                /\ ~parseHostOK(AuthorityOf(rest))
        THEN [err |-> TRUE, Scheme |-> <<>>]               \* invalid port
        ELSE [err |-> FALSE, Scheme |-> scheme]

----------------------------------------------------------------------------
(* OptionallyHTTPSFormattedURLString                                       *)

HTTP == <<"h", "t", "t", "p">>
HTTPS == <<"h", "t", "t", "p", "s">>

\* strings.Replace(s, old, new, -1): every occurrence is replaced
RECURSIVE ReplaceAll(_, _, _)
ReplaceAll(s, old, new) ==
    LET i == Index(s, old) IN
    IF i = 0 THEN s
    ELSE SubSeq(s, 1, i - 1) \o new
         \o ReplaceAll(SubSeq(s, i + Len(old), Len(s)), old, new)

\* mutant: the returned boolean is gated by the https flag
OptionallyHTTPS_BoolGatedByFlag(bareURLString, https) ==
    LET u == urlParse(bareURLString)
        isHTTPSchemedURL == ~u.err /\ u.Scheme = HTTP
        httpsFormattedString ==
            IF isHTTPSchemedURL /\ https
            THEN ReplaceFirst(bareURLString, HTTP, HTTPS)
            ELSE bareURLString
    IN  <<httpsFormattedString, isHTTPSchemedURL /\ https>>

\* mutant: the rewrite is applied whatever the https flag says
OptionallyHTTPS_AlwaysRewrites(bareURLString, https) ==
    LET u == urlParse(bareURLString)
        isHTTPSchemedURL == ~u.err /\ u.Scheme = HTTP
        httpsFormattedString ==
            IF isHTTPSchemedURL
            THEN ReplaceFirst(bareURLString, HTTP, HTTPS)
            ELSE bareURLString
    IN  <<httpsFormattedString, isHTTPSchemedURL>>

\* mutant: every occurrence of "http" is rewritten
OptionallyHTTPS_RewritesAll(bareURLString, https) ==
    LET u == urlParse(bareURLString)
        isHTTPSchemedURL == ~u.err /\ u.Scheme = HTTP
        httpsFormattedString ==
            IF isHTTPSchemedURL /\ https
            THEN ReplaceAll(bareURLString, HTTP, HTTPS)
            ELSE bareURLString
    IN  <<httpsFormattedString, isHTTPSchemedURL>>

OptionallyHTTPSFormattedURLString(bareURLString, https) ==
    LET u == urlParse(bareURLString)
        isHTTPSchemedURL == ~u.err /\ u.Scheme = HTTP
        httpsFormattedString ==
            IF isHTTPSchemedURL /\ https
            THEN ReplaceFirst(bareURLString, HTTP, HTTPS)
            ELSE bareURLString
    IN  <<httpsFormattedString, isHTTPSchemedURL>>

----------------------------------------------------------------------------
(* Inputs of the helper: a scheme-like prefix, a bounded middle part over  *)
(* a small alphabet, an optional trailing "http", and the spec's examples. *)

MaxMid == 3

MidAlphabet == {":", "/", "1", "x", "-"}

RECURSIVE SeqsUpTo(_, _)
SeqsUpTo(S, n) ==
    IF n = 0 THEN {<<>>}
    ELSE LET shorter == SeqsUpTo(S, n - 1)
         IN  shorter \cup {Append(s, c) : s \in shorter, c \in S}

URLPrefixes ==
    { <<>>, HTTP, HTTPS,
      <<"h", "t", "t", "p", ":", "/", "/">>,
      <<"H", "T", "T", "P", ":", "/", "/">>,
      <<"h", "t", "t", "p", "s", ":", "/", "/">>,
      <<"x", "h", "t", "t", "p", ":">> }

URLSuffixes == { <<>>, HTTP }

ExampleHTTP ==
    <<"h", "t", "t", "p", ":", "/", "/", "1", "0", ".", "0", ".", "0", ".", "1",
      ":", "3", "0", "0", "0">>
ExampleHTTPUpgraded ==
    <<"h", "t", "t", "p", "s", ":", "/", "/", "1", "0", ".", "0", ".", "0", ".", "1",
      ":", "3", "0", "0", "0">>
ExampleHTTPS == <<"h", "t", "t", "p", "s", ":", "/", "/", "x">>

URLInputs ==
    {pre \o mid \o suf :
        pre \in URLPrefixes, mid \in SeqsUpTo(MidAlphabet, MaxMid), suf \in URLSuffixes}
    \cup {ExampleHTTP, ExampleHTTPS}

URLInit ==
    /\ urlIn \in URLInputs
    /\ urlOut = [https \in BOOLEAN |-> NotCalled]
    /\ services = [n \in SvcNames |-> NoObject]
    /\ endpoints = [n \in SvcNames |-> NoObject]
    /\ resArgs = <<>>
    /\ resOut = <<>>
    /\ AddonIdle
    /\ ListIdle
    /\ OrchIdle
    /\ SecretsIdle

\* one call OptionallyHTTPSFormattedURLString(urlIn, https)
CallOptionallyHTTPS(https) ==
    /\ urlOut[https] = NotCalled
    /\ urlOut' = [urlOut EXCEPT ![https] = OptionallyHTTPSFormattedURLString(urlIn, https)]
    /\ UNCHANGED <<urlIn, clusterVars, resVars, addonVars, listVars, orchVars, secVars>>

CallWithHTTPS == CallOptionallyHTTPS(TRUE)
CallWithoutHTTPS == CallOptionallyHTTPS(FALSE)

URLNext == CallWithHTTPS \/ CallWithoutHTTPS

SpecURL == URLInit /\ [][URLNext]_vars

----------------------------------------------------------------------------
(* Claims about OptionallyHTTPSFormattedURLString, checked under SpecURL.  *)

ParsesAsHTTP(s) == ~urlParse(s).err /\ urlParse(s).Scheme = HTTP

\* the input is written with the literal lower-case scheme and parses
LiteralScheme(s, scheme) ==
    /\ HasPrefix(s, scheme \o <<":">>)
    /\ ~urlParse(s).err

\* C8: the boolean returned is true exactly when the input parses with the
\* scheme http, and the calls with the flag set and unset return the same
\* boolean for the same input.
C8_BoolIndependentOfFlag ==
    \A https \in BOOLEAN :
        urlOut[https] # NotCalled =>
            /\ urlOut[https][2] = ParsesAsHTTP(urlIn)
            /\ urlOut[~https] # NotCalled => urlOut[~https][2] = urlOut[https][2]

C8_Witness ==
    /\ urlOut[TRUE] # NotCalled
    /\ urlOut[FALSE] # NotCalled
    /\ urlOut[FALSE][2] = TRUE
    /\ urlOut[TRUE][1] # urlOut[FALSE][1]

\* C9 as stated: for an http-schemed input the call with the flag unset
\* returns (input, FALSE), the call with the flag set returns the https form
\* and TRUE, and an https-schemed input with the flag set comes back unchanged
\* with FALSE.
C9_AsStated ==
    /\ LiteralScheme(urlIn, HTTP) /\ urlOut[FALSE] # NotCalled
            => urlOut[FALSE] = <<urlIn, FALSE>>
    /\ LiteralScheme(urlIn, HTTP) /\ urlOut[TRUE] # NotCalled
            => urlOut[TRUE] = <<HTTPS \o SubSeq(urlIn, 5, Len(urlIn)), TRUE>>
    /\ LiteralScheme(urlIn, HTTPS) /\ urlOut[TRUE] # NotCalled
            => urlOut[TRUE] = <<urlIn, FALSE>>

\* C9 amended: for an input written with the lower-case scheme http the call
\* with the flag unset returns (input, TRUE); with the flag set it returns
\* the https form and TRUE; an https-schemed input with the flag set comes
\* back unchanged with FALSE.  The spec's examples are among the inputs.
C9_Examples ==
    /\ LiteralScheme(urlIn, HTTP) /\ urlOut[FALSE] # NotCalled
            => urlOut[FALSE] = <<urlIn, TRUE>>
    /\ LiteralScheme(urlIn, HTTP) /\ urlOut[TRUE] # NotCalled
            => urlOut[TRUE] = <<HTTPS \o SubSeq(urlIn, 5, Len(urlIn)), TRUE>>
    /\ LiteralScheme(urlIn, HTTPS) /\ urlOut[TRUE] # NotCalled
            => urlOut[TRUE] = <<urlIn, FALSE>>
    /\ urlIn = ExampleHTTP /\ urlOut[TRUE] # NotCalled
            => urlOut[TRUE] = <<ExampleHTTPUpgraded, TRUE>>

C9_Witness ==
    /\ urlIn = ExampleHTTP
    /\ urlOut[FALSE] = <<ExampleHTTP, TRUE>>
    /\ urlOut[TRUE] = <<ExampleHTTPUpgraded, TRUE>>

\* the positions at which "http" occurs in s
Occurrences(s) == {i \in 1..(Len(s) - 3) : SubSeq(s, i, i + 3) = HTTP}

\* C10: when the input parses with the scheme http and the flag is set, the
\* string returned is the input with its first occurrence of "http" (and no
\* other) replaced by "https"; in every other case it is the input.
C10_FirstOccurrenceOnly ==
    \A https \in BOOLEAN :
        urlOut[https] # NotCalled =>
            LET out == urlOut[https][1] IN
            IF ParsesAsHTTP(urlIn) /\ https /\ Occurrences(urlIn) # {}
            THEN \E i \in Occurrences(urlIn) :
                    /\ \A j \in Occurrences(urlIn) : i <= j
                    /\ out = SubSeq(urlIn, 1, i - 1) \o HTTPS
                                \o SubSeq(urlIn, i + 4, Len(urlIn))
            ELSE out = urlIn

\* an upgraded URL with a second "http" left as it was, and one whose
\* rewritten "http" is not the scheme
C10_Witness ==
    /\ urlOut[TRUE] # NotCalled
    /\ ParsesAsHTTP(urlIn)
    /\ Cardinality(Occurrences(urlIn)) = 1
    /\ ~HasPrefix(urlIn, HTTP)
    /\ urlOut[TRUE][1] # urlIn

----------------------------------------------------------------------------
(* Errors.  An error value is the chain of its messages, outermost first;  *)
(* nil is the empty chain.  errors.Wrap puts a message in front of a       *)
(* cause, retry.RetriableError puts the retriable mark in front of it.     *)

NilErr == <<>>

Frame(msg, arg) == [msg |-> msg, arg |-> arg]

NewError(msg, arg) == <<Frame(msg, arg)>>

\* errors.Wrap / errors.Wrapf
Wrap(err, msg, arg) == <<Frame(msg, arg)>> \o err

RetriableMark == Frame("retry.RetriableError", "")

\* &retry.RetriableError{Err: err}
RetriableError(err) == <<RetriableMark>> \o err

\* the type test the retry loop makes on the error a callback returns
IsRetriable(err) == err # NilErr /\ err[1] = RetriableMark

\* what the API server answers
NotFound(name) == NewError("not found", name)
ConnRefused == NewError("connection refused", "")

----------------------------------------------------------------------------
(* The cluster client.  c.fail is the set of API calls that fail with a    *)
(* transport error during the operation that uses the client.              *)

APICalls == {"Services.Get", "Endpoints.Get"}

Client(fail) == [services |-> services, endpoints |-> endpoints, fail |-> fail]

\* c.Services(namespace).Get(name)
ServicesGet(c, namespace, name) ==
    IF "Services.Get" \in c.fail THEN [obj |-> NoObject, err |-> ConnRefused]
    ELSE IF namespace # Namespace \/ c.services[name] = NoObject
    THEN [obj |-> NoObject, err |-> NotFound(name)]
    ELSE [obj |-> c.services[name], err |-> NilErr]

\* c.Endpoints(namespace).Get(name)
EndpointsGet(c, namespace, name) ==
    IF "Endpoints.Get" \in c.fail THEN [obj |-> NoObject, err |-> ConnRefused]
    ELSE IF namespace # Namespace \/ c.endpoints[name] = NoObject
    THEN [obj |-> NoObject, err |-> NotFound(name)]
    ELSE [obj |-> c.endpoints[name], err |-> NilErr]

----------------------------------------------------------------------------
(* URL templates.  A template is nil or a text/template over the fields    *)
(* IP, Port and Name: a literal prefix, "{{.IP}}:{{.Port}}", optionally    *)
(* "/{{.Name}}", and a guard that makes execution fail for some ports      *)
(* (as {{if eq .Port 30}}{{.Missing}}{{end}} does).                        *)

NilTemplate == [nil |-> TRUE]

Template(prefix, withName, failOn) ==
    [nil |-> FALSE, prefix |-> prefix, withName |-> withName, failOn |-> failOn]

DigitChars == <<"0", "1", "2", "3", "4", "5", "6", "7", "8", "9">>

\* the decimal text of a positive int32, as {{.Port}} prints it
RECURSIVE Itoa(_)
Itoa(n) ==
    IF n < 10 THEN <<DigitChars[n + 1]>>
    ELSE Append(Itoa(n \div 10), DigitChars[(n % 10) + 1])

\* t.Execute(&doc, data): [err, doc]
Execute(t, data) ==
    IF data.Port \in t.failOn
    THEN [err |-> NewError("template: can't evaluate field", ""), doc |-> <<>>]
    ELSE [err |-> NilErr,
          doc |-> t.prefix \o data.IP \o <<":">> \o Itoa(data.Port)
                    \o (IF t.withName THEN <<"/">> \o data.Name ELSE <<>>)]

----------------------------------------------------------------------------
(* printURLsForService                                                     *)

\* m[k] of a Go map[int32]string: the zero value "" for a missing key
MapGet(m, k) == IF k \in DOMAIN m THEN m[k] ELSE <<>>

\* m[k] = v
MapPut(m, k, v) == [x \in DOMAIN m \cup {k} |-> IF x = k THEN v ELSE m[x]]

\* mutant: a port number that is already in the map keeps its first name
RECURSIVE indexPorts_FirstWins(_, _, _)
indexPorts_FirstWins(m, ports, i) ==
    IF i > Len(ports) THEN m
    ELSE IF ports[i].Port \in DOMAIN m THEN indexPorts_FirstWins(m, ports, i + 1)
    ELSE indexPorts_FirstWins(MapPut(m, ports[i].Port, ports[i].Name), ports, i + 1)

\* for _, p := range ept.Ports { m[p.Port] = p.Name }
RECURSIVE indexPorts(_, _, _)
indexPorts(m, ports, i) ==
    IF i > Len(ports) THEN m
    ELSE indexPorts(MapPut(m, ports[i].Port, ports[i].Name), ports, i + 1)

\* for _, ept := range endpoints.Subsets { ... }
RECURSIVE indexSubsets(_, _, _)
indexSubsets(m, subsets, i) ==
    IF i > Len(subsets) THEN m
    ELSE indexSubsets(indexPorts(m, subsets[i].Ports, 1), subsets, i + 1)

EmptyMap == [x \in {} |-> <<>>]

\* the map m of printURLsForService, from the answer of Endpoints.Get
endpointPortIndex(ep) ==
    IF ep.err = NilErr /\ ep.obj # NoObject /\ Len(ep.obj.Subsets) > 0
    THEN indexSubsets(EmptyMap, ep.obj.Subsets, 1)
    ELSE EmptyMap

\* mutant: the port name is appended for every port, qualifying or not
RECURSIVE renderPorts_NameForEveryPort(_, _, _, _, _, _, _)
renderPorts_NameForEveryPort(ports, i, t, ip, m, urls, portNames) ==
    IF i > Len(ports) THEN [err |-> NilErr, urls |-> urls, portNames |-> portNames]
    ELSE LET name == MapGet(m, ports[i].TargetPort) IN
         IF ports[i].NodePort > 0
         THEN LET r == Execute(t, [IP |-> ip, Port |-> ports[i].NodePort, Name |-> name])
              IN  IF r.err # NilErr
                  THEN [err |-> r.err, urls |-> urls, portNames |-> portNames]
                  ELSE renderPorts_NameForEveryPort(ports, i + 1, t, ip, m,
                                   Append(urls, r.doc), Append(portNames, name))
         ELSE renderPorts_NameForEveryPort(ports, i + 1, t, ip, m,
                                   urls, Append(portNames, name))

\* mutant: a port qualifies when its node port is >= 0
RECURSIVE renderPorts_ZeroQualifies(_, _, _, _, _, _, _)
renderPorts_ZeroQualifies(ports, i, t, ip, m, urls, portNames) ==
    IF i > Len(ports) THEN [err |-> NilErr, urls |-> urls, portNames |-> portNames]
    ELSE IF ports[i].NodePort >= 0
    THEN LET name == MapGet(m, ports[i].TargetPort)
             r == Execute(t, [IP |-> ip, Port |-> ports[i].NodePort, Name |-> name])
         IN  IF r.err # NilErr
             THEN [err |-> r.err, urls |-> urls, portNames |-> portNames]
             ELSE renderPorts_ZeroQualifies(ports, i + 1, t, ip, m,
                              Append(urls, r.doc), Append(portNames, name))
    ELSE renderPorts_ZeroQualifies(ports, i + 1, t, ip, m, urls, portNames)

\* for _, port := range svc.Spec.Ports { ... }: [err, urls, portNames]
RECURSIVE renderPorts(_, _, _, _, _, _, _)
renderPorts(ports, i, t, ip, m, urls, portNames) ==
    IF i > Len(ports) THEN [err |-> NilErr, urls |-> urls, portNames |-> portNames]
    ELSE IF ports[i].NodePort > 0
    THEN LET name == MapGet(m, ports[i].TargetPort)
             r == Execute(t, [IP |-> ip, Port |-> ports[i].NodePort, Name |-> name])
         IN  IF r.err # NilErr
             THEN [err |-> r.err, urls |-> urls, portNames |-> portNames]
             ELSE renderPorts(ports, i + 1, t, ip, m,
                              Append(urls, r.doc), Append(portNames, name))
    ELSE renderPorts(ports, i + 1, t, ip, m, urls, portNames)

\* mutant: a failed fetch of the endpoints fails the resolution
printURLsForService_EndpointsErrorFatal(c, ip, service, namespace, t) ==
    IF t = NilTemplate
    THEN [url |-> EmptySvcURL,
          err |-> NewError("Error, attempted to generate service url with nil --format template", ""),
          calls |-> <<>>]
    ELSE LET got == ServicesGet(c, namespace, service) IN
         IF got.err # NilErr
         THEN [url |-> EmptySvcURL,
               err |-> Wrap(got.err, "service '%s' could not be found running", service),
               calls |-> <<"Services.Get">>]
         ELSE LET svc == got.obj
                  ep == EndpointsGet(c, namespace, service)
                  m == endpointPortIndex(ep)
                  r == renderPorts(svc.Ports, 1, t, ip, m, <<>>, <<>>)
              IN  IF ep.err # NilErr
                  THEN [url |-> EmptySvcURL, err |-> ep.err,
                        calls |-> <<"Services.Get", "Endpoints.Get">>]
                  ELSE IF r.err # NilErr
                  THEN [url |-> EmptySvcURL, err |-> r.err,
                        calls |-> <<"Services.Get", "Endpoints.Get">>]
                  ELSE [url |-> SvcURL(svc.Namespace, svc.Name, r.urls, r.portNames),
                        err |-> NilErr,
                        calls |-> <<"Services.Get", "Endpoints.Get">>]

\* mutant: when a template fails, the URLs rendered before are returned
printURLsForService_ReturnsRendered(c, ip, service, namespace, t) ==
    IF t = NilTemplate
    THEN [url |-> EmptySvcURL,
          err |-> NewError("Error, attempted to generate service url with nil --format template", ""),
          calls |-> <<>>]
    ELSE LET got == ServicesGet(c, namespace, service) IN
         IF got.err # NilErr
         THEN [url |-> EmptySvcURL,
               err |-> Wrap(got.err, "service '%s' could not be found running", service),
               calls |-> <<"Services.Get">>]
         ELSE LET svc == got.obj
                  m == endpointPortIndex(EndpointsGet(c, namespace, service))
                  r == renderPorts(svc.Ports, 1, t, ip, m, <<>>, <<>>)
              IN  [url |-> SvcURL(svc.Namespace, svc.Name, r.urls, r.portNames),
                   err |-> r.err,
                   calls |-> <<"Services.Get", "Endpoints.Get">>]

\* [url, err, calls]: the SvcURL and the error returned, and the API calls
\* made on the way, in order
printURLsForService(c, ip, service, namespace, t) ==
    IF t = NilTemplate
    THEN [url |-> EmptySvcURL,
          err |-> NewError("Error, attempted to generate service url with nil --format template", ""),
          calls |-> <<>>]
    ELSE LET got == ServicesGet(c, namespace, service) IN
         IF got.err # NilErr
         THEN [url |-> EmptySvcURL,
               err |-> Wrap(got.err, "service '%s' could not be found running", service),
               calls |-> <<"Services.Get">>]
         ELSE LET svc == got.obj
                  m == endpointPortIndex(EndpointsGet(c, namespace, service))
                  r == renderPorts(svc.Ports, 1, t, ip, m, <<>>, <<>>)
              IN  IF r.err # NilErr
                  THEN [url |-> EmptySvcURL, err |-> r.err,
                        calls |-> <<"Services.Get", "Endpoints.Get">>]
                  ELSE [url |-> SvcURL(svc.Namespace, svc.Name, r.urls, r.portNames),
                        err |-> NilErr,
                        calls |-> <<"Services.Get", "Endpoints.Get">>]

----------------------------------------------------------------------------
(* The resolver on its own: a service, its endpoints, a template and the   *)
(* failing API calls are drawn, and printURLsForService is called once.    *)

MaxPorts == 3

ServicePort(nodePort, targetPort) == [NodePort |-> nodePort, TargetPort |-> targetPort]

\* the declared ports a service is built from: without a node port (0),
\* with a negative one, and with the node ports 8 and 30
ServicePorts ==
    { ServicePort(0, 80), ServicePort(-1, 443), ServicePort(8, 80),
      ServicePort(30, 443), ServicePort(8, 443) }

PortLists == SeqsUpTo(ServicePorts, MaxPorts)

Service(name, ports) == [Name |-> name, Namespace |-> Namespace, Ports |-> ports]

EndpointPort(port, name) == [Port |-> port, Name |-> name]
Subset(ports) == [Ports |-> ports]
Endpoints(subsets) == [Subsets |-> subsets]

NameA == <<"a">>
NameB == <<"b">>

\* endpoints objects: absent, without subsets, one subset, a subset naming a
\* port twice, two subsets naming the same port, two subsets naming two ports
EndpointsChoices ==
    { NoObject,
      Endpoints(<<>>),
      Endpoints(<<Subset(<<EndpointPort(80, NameA)>>)>>),
      Endpoints(<<Subset(<<EndpointPort(80, NameA), EndpointPort(80, NameB)>>)>>),
      Endpoints(<<Subset(<<EndpointPort(80, NameA)>>), Subset(<<EndpointPort(80, NameB)>>)>>),
      Endpoints(<<Subset(<<EndpointPort(80, NameA)>>), Subset(<<EndpointPort(443, NameB)>>)>>),
      Endpoints(<<Subset(<<EndpointPort(443, NameA), EndpointPort(80, <<>>)>>)>>) }

HTTPPrefix == <<"h", "t", "t", "p", ":", "/", "/">>
HTTPSPrefix == <<"h", "t", "t", "p", "s", ":", "/", "/">>

DefaultTemplate == Template(HTTPPrefix, FALSE, {})        \* http://{{.IP}}:{{.Port}}
HTTPSNameTemplate == Template(HTTPSPrefix, TRUE, {})      \* https://{{.IP}}:{{.Port}}/{{.Name}}
BareTemplate == Template(<<>>, FALSE, {})                 \* {{.IP}}:{{.Port}}
FailingTemplate == Template(HTTPPrefix, FALSE, {30})      \* fails when .Port is 30

Templates == {NilTemplate, DefaultTemplate, HTTPSNameTemplate, BareTemplate, FailingTemplate}

\* host.Driver.GetIP()
NodeIP == <<"1", "0", ".", "1">>

TargetService == "web"

\* the target service: absent, or declared with one of the port lists
ServiceChoices == {NoObject} \cup {Service(TargetService, ports) : ports \in PortLists}

ResolveInit ==
    /\ urlIn = <<>>
    /\ urlOut = [https \in BOOLEAN |-> NotCalled]
    /\ \E svc \in ServiceChoices :
          services = [n \in SvcNames |-> IF n = TargetService THEN svc ELSE NoObject]
    /\ \E ep \in EndpointsChoices :
          endpoints = [n \in SvcNames |-> IF n = TargetService THEN ep ELSE NoObject]
    /\ \E t \in Templates, fail \in SUBSET APICalls :
          resArgs = [service |-> TargetService, ip |-> NodeIP, t |-> t, fail |-> fail]
    /\ resOut = <<>>
    /\ AddonIdle
    /\ ListIdle
    /\ OrchIdle
    /\ SecretsIdle

\* one call printURLsForService(c, ip, service, namespace, t)
CallPrintURLsForService ==
    /\ resOut = <<>>
    /\ resOut' = <<printURLsForService(Client(resArgs.fail), resArgs.ip,
                                       resArgs.service, Namespace, resArgs.t)>>
    /\ UNCHANGED <<urlVars, clusterVars, resArgs, addonVars, listVars, orchVars, secVars>>

ResolveNext == CallPrintURLsForService

SpecResolve == ResolveInit /\ [][ResolveNext]_vars

----------------------------------------------------------------------------
(* Claims about printURLsForService, checked under SpecResolve.            *)

\* the service the call resolves, as the cluster holds it
ResolvedService == services[resArgs.service]

\* the declared ports with a node port > 0, in declaration order
Qualifying(ports) == SelectSeq(ports, LAMBDA p : p.NodePort > 0)

\* the call finds the service and its template renders every qualifying port
ResolvesCleanly ==
    /\ resArgs.t # NilTemplate
    /\ "Services.Get" \notin resArgs.fail
    /\ ResolvedService # NoObject
    /\ \A i \in 1..Len(ResolvedService.Ports) :
          ResolvedService.Ports[i].NodePort \notin resArgs.t.failOn

\* the name the endpoints give the target port: that of the last endpoint
\* port with that number, "" when there is none or the endpoints are not had
NameOfTarget(target) ==
    LET ep == endpoints[resArgs.service]
        flat == IF ep = NoObject \/ "Endpoints.Get" \in resArgs.fail THEN <<>>
                ELSE LET RECURSIVE Flatten(_)
                         Flatten(i) == IF i > Len(ep.Subsets) THEN <<>>
                                       ELSE ep.Subsets[i].Ports \o Flatten(i + 1)
                     IN  Flatten(1)
        hits == {i \in 1..Len(flat) : flat[i].Port = target}
    IN  IF hits = {} THEN <<>>
        ELSE flat[CHOOSE i \in hits : \A j \in hits : j <= i].Name

\* C1: a resolution of a service of which k ports have a node port > 0
\* succeeds with exactly k URLs and k port names, and the i-th URL and the
\* i-th name are those of the i-th port with a node port > 0, in the order
\* the ports are declared.
C1_OnePairPerQualifyingPort ==
    Len(resOut) > 0 /\ ResolvesCleanly =>
        LET r == resOut[1]
            q == Qualifying(ResolvedService.Ports)
        IN  /\ r.err = NilErr
            /\ Len(r.url.URLs) = Len(q)
            /\ Len(r.url.PortNames) = Len(q)
            /\ \A i \in 1..Len(q) :
                  /\ r.url.PortNames[i] = NameOfTarget(q[i].TargetPort)
                  /\ r.url.URLs[i] =
                        resArgs.t.prefix \o resArgs.ip \o <<":">> \o Itoa(q[i].NodePort)
                        \o (IF resArgs.t.withName
                            THEN <<"/">> \o NameOfTarget(q[i].TargetPort) ELSE <<>>)

\* three declared ports, the middle one without a node port, and two
\* different names paired with two different URLs
C1_Witness ==
    /\ Len(resOut) > 0
    /\ ResolvesCleanly
    /\ Len(ResolvedService.Ports) = 3
    /\ ResolvedService.Ports[2].NodePort <= 0
    /\ Len(resOut[1].url.URLs) = 2
    /\ resOut[1].url.PortNames = <<NameA, NameB>>
    /\ resOut[1].url.URLs[1] # resOut[1].url.URLs[2]

NilTemplateErr ==
    NewError("Error, attempted to generate service url with nil --format template", "")

\* the call finds the service, and the template fails for one of the ports
\* with a node port > 0
TemplateFails ==
    /\ resArgs.t # NilTemplate
    /\ "Services.Get" \notin resArgs.fail
    /\ ResolvedService # NoObject
    /\ \E i \in 1..Len(ResolvedService.Ports) :
          /\ ResolvedService.Ports[i].NodePort > 0
          /\ ResolvedService.Ports[i].NodePort \in resArgs.t.failOn

\* C13: with a nil template the call returns its error and the empty SvcURL
\* without a fetch from the cluster, whatever the cluster holds; when the
\* template fails for a port with a node port > 0 the call returns an error
\* and the empty SvcURL, also when earlier ports were rendered; and no call
\* returns an error together with a SvcURL that is not empty.
C13_ResolutionAllOrNothing ==
    Len(resOut) > 0 =>
        LET r == resOut[1] IN
        /\ resArgs.t = NilTemplate =>
              r.err = NilTemplateErr /\ r.url = EmptySvcURL /\ r.calls = <<>>
        /\ TemplateFails => r.err # NilErr /\ r.url = EmptySvcURL
        /\ r.err # NilErr => r.url = EmptySvcURL
        /\ r.err = NilErr => r.calls = <<"Services.Get", "Endpoints.Get">>

\* the first port was rendered, the template failed for the second, and
\* nothing of the first is returned
C13_Witness ==
    /\ Len(resOut) > 0
    /\ TemplateFails
    /\ Len(ResolvedService.Ports) >= 2
    /\ ResolvedService.Ports[1].NodePort > 0
    /\ ResolvedService.Ports[1].NodePort \notin resArgs.t.failOn
    /\ resOut[1].err # NilErr
    /\ resOut[1].url = EmptySvcURL

\* the fetch of the endpoints fails (also when the cluster holds none for
\* the service), or the endpoints object has no subsets
EndpointsUnavailable ==
    \/ "Endpoints.Get" \in resArgs.fail
    \/ endpoints[resArgs.service] = NoObject
    \/ Len(endpoints[resArgs.service].Subsets) = 0

\* C18: when the endpoints of the service cannot be fetched, or have no
\* subsets, the resolution does not fail for that: it returns one URL and
\* one name per port with a node port > 0, and every name is the empty
\* string.
C18_EndpointLookupBestEffort ==
    Len(resOut) > 0 /\ ResolvesCleanly /\ EndpointsUnavailable =>
        LET r == resOut[1]
            q == Qualifying(ResolvedService.Ports)
        IN  /\ r.err = NilErr
            /\ r.calls = <<"Services.Get", "Endpoints.Get">>
            /\ Len(r.url.URLs) = Len(q)
            /\ r.url.PortNames = [i \in 1..Len(q) |-> <<>>]

\* the fetch of the endpoints failed although the cluster holds endpoints
\* that name the ports, and two URLs were returned with empty names
C18_Witness ==
    /\ Len(resOut) > 0
    /\ ResolvesCleanly
    /\ "Endpoints.Get" \in resArgs.fail
    /\ endpoints[resArgs.service] # NoObject
    /\ Len(endpoints[resArgs.service].Subsets) > 0
    /\ resOut[1].err = NilErr
    /\ Len(resOut[1].url.URLs) = 2
    /\ resOut[1].url.PortNames = <<<<>>, <<>>>>

\* the text rendered for the Name field in the i-th URL: what follows the
\* last "/" of a URL rendered by a template that ends in /{{.Name}}
RenderedName(url) == SubSeq(url, LastIndex(url, <<"/">>) + 1, Len(url))

\* C19: the name paired with the URL of a port is the name of the last
\* endpoint port, in the order subsets and their ports are scanned, whose
\* number is the port's target port, and the empty string when there is
\* none; the Name field of the rendered URL and the entry of PortNames are
\* that same name.
C19_NameIsLastEndpointPortOfTarget ==
    Len(resOut) > 0 /\ ResolvesCleanly =>
        LET r == resOut[1]
            q == Qualifying(ResolvedService.Ports)
        IN  /\ Len(r.url.PortNames) = Len(q)
            /\ \A i \in 1..Len(q) :
                  /\ r.url.PortNames[i] = NameOfTarget(q[i].TargetPort)
                  /\ resArgs.t.withName =>
                        RenderedName(r.url.URLs[i]) = r.url.PortNames[i]

\* two subsets name the target port, "a" first and "b" second, and "b" is
\* both in PortNames and in the URL
C19_Witness ==
    /\ Len(resOut) > 0
    /\ ResolvesCleanly
    /\ resArgs.fail = {}
    /\ resArgs.t.withName
    /\ endpoints[resArgs.service] =
          Endpoints(<<Subset(<<EndpointPort(80, NameA)>>), Subset(<<EndpointPort(80, NameB)>>)>>)
    /\ Len(resOut[1].url.URLs) = 1
    /\ resOut[1].url.PortNames = <<NameB>>
    /\ RenderedName(resOut[1].url.URLs[1]) = NameB

----------------------------------------------------------------------------
(* CheckService and the retry loop around it                               *)

\* K8s.GetCoreClient(): the client, or the error of loading the kubeconfig
K8s(fail) == [clientErr |-> "GetCoreClient" \in fail, c |-> Client(fail)]

GetCoreClientErr == NewError("getting clientset: kubeConfig", "")

\* mutant: a client that cannot be had is reported as a retriable error
CheckService_ClientErrRetriable(k, namespace, service) ==
    IF k.clientErr
    THEN RetriableError(Wrap(GetCoreClientErr, "Error getting kubernetes client", ""))
    ELSE LET got == ServicesGet(k.c, namespace, service) IN
         IF got.err # NilErr
         THEN RetriableError(Wrap(got.err, "Error getting service %s", service))
         ELSE IF Len(got.obj.Ports) = 0
         THEN NewError("%s:%s has no ports", service)
         ELSE NilErr

\* mutant: a failed fetch of the service is returned as a plain error
CheckService_GetErrorNotRetriable(k, namespace, service) ==
    IF k.clientErr THEN Wrap(GetCoreClientErr, "Error getting kubernetes client", "")
    ELSE LET got == ServicesGet(k.c, namespace, service) IN
         IF got.err # NilErr
         THEN Wrap(got.err, "Error getting service %s", service)
         ELSE IF Len(got.obj.Ports) = 0
         THEN NewError("%s:%s has no ports", service)
         ELSE NilErr

\* mutant: a service without ports is reported as a retriable error
CheckService_NoPortsRetriable(k, namespace, service) ==
    IF k.clientErr THEN Wrap(GetCoreClientErr, "Error getting kubernetes client", "")
    ELSE LET got == ServicesGet(k.c, namespace, service) IN
         IF got.err # NilErr
         THEN RetriableError(Wrap(got.err, "Error getting service %s", service))
         ELSE IF Len(got.obj.Ports) = 0
         THEN RetriableError(NewError("%s:%s has no ports", service))
         ELSE NilErr

\* mutant: a service needs two ports to count as having ports
CheckService_OnePortIsNoPorts(k, namespace, service) ==
    IF k.clientErr THEN Wrap(GetCoreClientErr, "Error getting kubernetes client", "")
    ELSE LET got == ServicesGet(k.c, namespace, service) IN
         IF got.err # NilErr
         THEN RetriableError(Wrap(got.err, "Error getting service %s", service))
         ELSE IF Len(got.obj.Ports) <= 1
         THEN NewError("%s:%s has no ports", service)
         ELSE NilErr

\* the error CheckService(namespace, service) returns (the namespace of the
\* "has no ports" message is the one namespace of the model)
CheckService(k, namespace, service) ==
    IF k.clientErr THEN Wrap(GetCoreClientErr, "Error getting kubernetes client", "")
    ELSE LET got == ServicesGet(k.c, namespace, service) IN
         IF got.err # NilErr
         THEN RetriableError(Wrap(got.err, "Error getting service %s", service))
         ELSE IF Len(got.obj.Ports) = 0
         THEN NewError("%s:%s has no ports", service)
         ELSE NilErr

\* retry.Expo after one call of the callback: it returns nil on success,
\* returns an error that is not retriable at once, and otherwise sleeps the
\* back-off interval and doubles it, unless that sleep would pass maxTime, in
\* which case it returns the last error.
ExpoAfter(err, slept, interval, maxTime) ==
    IF err = NilErr THEN [verdict |-> "success", err |-> NilErr]
    ELSE IF ~IsRetriable(err) THEN [verdict |-> "fail", err |-> err]
    ELSE IF slept + interval > maxTime THEN [verdict |-> "fail", err |-> err]
    ELSE [verdict |-> "retry", err |-> err]

ExpoMultiplier == 2

----------------------------------------------------------------------------
(* GetServiceURLsForService                                                *)

HostCalls == {"CheckIfHostExistsAndLoad", "GetIP", "GetCoreClient"}

\* h.fail: the calls that fail during the operation; [url, err]
GetServiceURLsForService(h, namespace, service, t) ==
    IF "CheckIfHostExistsAndLoad" \in h.fail
    THEN [url |-> EmptySvcURL,
          err |-> Wrap(NewError("machine does not exist", ""),
                       "Error checking if api exist and loading it", ""),
          calls |-> <<>>]
    ELSE IF "GetIP" \in h.fail
    THEN [url |-> EmptySvcURL,
          err |-> Wrap(NewError("IP not found", ""), "Error getting ip from host", ""),
          calls |-> <<>>]
    ELSE IF "GetCoreClient" \in h.fail
    THEN [url |-> EmptySvcURL, err |-> GetCoreClientErr, calls |-> <<>>]
    ELSE printURLsForService(Client(h.fail), h.ip, service, namespace, t)

----------------------------------------------------------------------------
(* WaitAndMaybeOpenService, step by step: the normalisation of interval,   *)
(* one action per CheckService call of the retry loop, one for the         *)
(* resolution with the table and the no-node-port notice, and one per URL  *)
(* of the loop.  The cluster may change between the steps.                 *)

MaxWait == 3
MaxInterval == 2

Event(kind, text, names) == [kind |-> kind, text |-> text, names |-> names]

\* strings.Join(elems, sep)
RECURSIVE Join(_, _)
Join(elems, sep) ==
    IF elems = <<>> THEN <<>>
    ELSE IF Len(elems) = 1 THEN elems[1]
    ELSE elems[1] \o sep \o Join(Tail(elems), sep)

Newline == <<"\n">>
NoNodePortCell == <<"N", "o", " ", "n", "o", "d", "e", " ", "p", "o", "r", "t">>

\* PrintServiceList(os.Stdout, data) with the one row of the service
TableEvent(u) ==
    IF Len(u.URLs) = 0
    THEN Event("PrintServiceList", NoNodePortCell, <<>>)
    ELSE Event("PrintServiceList", Join(u.URLs, Newline), Join(u.PortNames, Newline))

\* out.T(out.Sad, "service ... has no node port")
NoNodePortNotice == Event("out.T(Sad): has no node port", <<>>, <<>>)
\* out.T(out.Empty, urlString)
URLLine(urlString) == Event("out.T(Empty)", urlString, <<>>)
\* out.T(out.Celebrate, "Opening kubernetes service ... in default browser...")
OpeningNotice == Event("out.T(Celebrate): Opening in default browser", <<>>, <<>>)
\* browser.OpenURL(urlString)
BrowserLaunch(urlString) == Event("browser.OpenURL", urlString, <<>>)
\* out.ErrT(out.Empty, "browser failed to open url: ...")
BrowserFailedLine(urlString) == Event("out.ErrT: browser failed to open url", urlString, <<>>)

\* the failures one CheckService call can meet, and one resolution
PollFailures == {{}, {"GetCoreClient"}, {"Services.Get"}}
ResolveFailures == {{}} \cup {{f} : f \in HostCalls \cup APICalls}

\* the states of the target service while the operation runs: absent,
\* without ports, with a port but no node port, with one node port, with
\* three ports of which two have a node port
OrchServices ==
    { NoObject,
      Service(TargetService, <<>>),
      Service(TargetService, <<ServicePort(0, 80)>>),
      Service(TargetService, <<ServicePort(8, 80)>>),
      Service(TargetService, <<ServicePort(8, 80), ServicePort(0, 80), ServicePort(30, 443)>>) }

OrchEndpoints ==
    Endpoints(<<Subset(<<EndpointPort(80, NameA), EndpointPort(443, NameB)>>)>>)

OrchTemplates == {NilTemplate, DefaultTemplate, HTTPSNameTemplate, BareTemplate, FailingTemplate}

OrchInit ==
    /\ urlIn = <<>>
    /\ urlOut = [https \in BOOLEAN |-> NotCalled]
    /\ \E svc \in OrchServices :
          services = [n \in SvcNames |-> IF n = TargetService THEN svc ELSE NoObject]
    /\ endpoints = [n \in SvcNames |-> IF n = TargetService THEN OrchEndpoints ELSE NoObject]
    /\ resArgs = <<>>
    /\ resOut = <<>>
    /\ AddonIdle
    /\ ListIdle
    /\ \E urlMode \in BOOLEAN, https \in BOOLEAN, wait \in 0..MaxWait,
          interval \in 0..MaxInterval, t \in OrchTemplates :
          args = [service |-> TargetService, urlMode |-> urlMode, https |-> https,
                  wait |-> wait, interval |-> interval, t |-> t]
    /\ pc = "start"
    /\ elapsed = 0
    /\ sleep = 0
    /\ pollLog = <<>>
    /\ resolverCalls = 0
    /\ resolved = NothingResolved
    /\ serviceURL = EmptySvcURL
    /\ idx = 0
    /\ events = <<>>
    /\ ret = NilErr
    /\ SecretsIdle

\* if interval == 0 { interval = 1 }; retry.Expo starts with that interval
Begin ==
    /\ pc = "start"
    /\ sleep' = IF args.interval = 0 THEN 1 ELSE args.interval
    /\ elapsed' = 0
    /\ pc' = "polling"
    /\ UNCHANGED <<urlVars, clusterVars, resVars, addonVars, listVars, secVars, args, pollLog, resolverCalls,
                   resolved, serviceURL, idx, events, ret>>

\* the total budget retry.Expo is called with: time.Duration(wait)*time.Second,
\* the wait argument as the caller gave it
ExpoMaxTime == args.wait

\* one call of chkSVC by retry.Expo, and what the loop does with its result;
\* when the loop gives up, WaitAndMaybeOpenService returns the wrapped error
PollAttempt ==
    /\ pc = "polling"
    /\ \E fail \in PollFailures :
          LET err == CheckService(K8s(fail), Namespace, args.service)
              x == ExpoAfter(err, elapsed, sleep, ExpoMaxTime)
              got == ServicesGet(Client(fail), Namespace, args.service)
              found == "GetCoreClient" \notin fail /\ got.err = NilErr
          IN  /\ pollLog' = Append(pollLog,
                     [clientErr |-> "GetCoreClient" \in fail,
                      found |-> found,
                      ports |-> IF found THEN Len(got.obj.Ports) ELSE 0,
                      at |-> elapsed,
                      err |-> err])
              /\ IF x.verdict = "success"
                 THEN /\ pc' = "ready"
                      /\ UNCHANGED <<elapsed, sleep, ret>>
                 ELSE IF x.verdict = "retry"
                 THEN /\ elapsed' = elapsed + sleep
                      /\ sleep' = sleep * ExpoMultiplier
                      /\ UNCHANGED <<pc, ret>>
                 ELSE /\ pc' = "done"
                      /\ ret' = Wrap(x.err,
                            "Could not find finalized endpoint being pointed to by %s",
                            args.service)
                      /\ UNCHANGED <<elapsed, sleep>>
    /\ UNCHANGED <<urlVars, clusterVars, resVars, addonVars, listVars, secVars, args, resolverCalls, resolved,
                   serviceURL, idx, events>>

\* mutant: the table is printed before the resolver's error is looked at
ResolveAndReport_TableBeforeErrorCheck ==
    /\ pc = "ready"
    /\ resolverCalls' = resolverCalls + 1
    /\ \E fail \in ResolveFailures :
        LET r == GetServiceURLsForService([fail |-> fail, ip |-> NodeIP],
                                          Namespace, args.service, args.t)
            table == IF ~args.urlMode THEN <<TableEvent(r.url)>> ELSE <<>>
        IN  /\ resolved' = [fail |-> fail, svc |-> services[args.service]]
            /\ IF r.err # NilErr
               THEN /\ ret' = Wrap(r.err,
                          "Check that minikube is running and that you have specified the correct namespace",
                          "")
                    /\ events' = events \o table
                    /\ pc' = "done"
                    /\ UNCHANGED <<serviceURL, idx>>
               ELSE IF Len(r.url.URLs) = 0
               THEN /\ serviceURL' = r.url
                    /\ events' = events \o table \o <<NoNodePortNotice>>
                    /\ ret' = NilErr
                    /\ pc' = "done"
                    /\ UNCHANGED idx
               ELSE /\ serviceURL' = r.url
                    /\ events' = events \o table
                    /\ idx' = 1
                    /\ pc' = "urls"
                    /\ UNCHANGED ret
    /\ UNCHANGED <<urlVars, clusterVars, resVars, addonVars, listVars, secVars, args, elapsed, sleep,
                   pollLog>>

\* GetServiceURLsForService, the table, and the no-node-port exit
ResolveAndReport ==
    /\ pc = "ready"
    /\ resolverCalls' = resolverCalls + 1
    /\ \E fail \in ResolveFailures :
        LET r == GetServiceURLsForService([fail |-> fail, ip |-> NodeIP],
                                          Namespace, args.service, args.t)
            table == IF ~args.urlMode THEN <<TableEvent(r.url)>> ELSE <<>>
        IN  /\ resolved' = [fail |-> fail, svc |-> services[args.service]]
            /\ IF r.err # NilErr
               THEN /\ ret' = Wrap(r.err,
                          "Check that minikube is running and that you have specified the correct namespace",
                          "")
                    /\ pc' = "done"
                    /\ UNCHANGED <<serviceURL, idx, events>>
               ELSE IF Len(r.url.URLs) = 0
               THEN /\ serviceURL' = r.url
                    /\ events' = events \o table \o <<NoNodePortNotice>>
                    /\ ret' = NilErr
                    /\ pc' = "done"
                    /\ UNCHANGED idx
               ELSE /\ serviceURL' = r.url
                    /\ events' = events \o table
                    /\ idx' = 1
                    /\ pc' = "urls"
                    /\ UNCHANGED ret
    /\ UNCHANGED <<urlVars, clusterVars, resVars, addonVars, listVars, secVars, args, elapsed, sleep, pollLog>>

\* mutant: a browser that fails to open ends the operation with that error
HandleURL_BrowserFailureAborts ==
    /\ pc = "urls"
    /\ LET bareURLString == serviceURL.URLs[idx]
           o == OptionallyHTTPSFormattedURLString(bareURLString, args.https)
           urlString == o[1]
           isHTTPSchemedURL == o[2]
       IN  IF args.urlMode \/ ~isHTTPSchemedURL
           THEN /\ events' = Append(events, URLLine(urlString))
                /\ IF idx = Len(serviceURL.URLs)
                   THEN pc' = "done" /\ ret' = NilErr
                   ELSE UNCHANGED <<pc, ret>>
           ELSE \E browserFails \in BOOLEAN :
                   IF browserFails
                   THEN /\ events' = events \o <<OpeningNotice, BrowserLaunch(urlString),
                                                  BrowserFailedLine(urlString)>>
                        /\ pc' = "done"
                        /\ ret' = NewError("browser failed to open url", "")
                   ELSE /\ events' = events \o <<OpeningNotice, BrowserLaunch(urlString)>>
                        /\ IF idx = Len(serviceURL.URLs)
                           THEN pc' = "done" /\ ret' = NilErr
                           ELSE UNCHANGED <<pc, ret>>
    /\ idx' = idx + 1
    /\ UNCHANGED <<urlVars, clusterVars, resVars, addonVars, listVars, secVars, args, elapsed, sleep, pollLog,
                   resolverCalls, resolved, serviceURL>>

\* mutant: URL mode is not looked at when a URL is dispatched
HandleURL_IgnoresURLMode ==
    /\ pc = "urls"
    /\ LET bareURLString == serviceURL.URLs[idx]
           o == OptionallyHTTPSFormattedURLString(bareURLString, args.https)
           urlString == o[1]
           isHTTPSchemedURL == o[2]
       IN  IF ~isHTTPSchemedURL
           THEN events' = Append(events, URLLine(urlString))
           ELSE \E browserFails \in BOOLEAN :
                   events' = events \o <<OpeningNotice, BrowserLaunch(urlString)>>
                             \o (IF browserFails THEN <<BrowserFailedLine(urlString)>>
                                 ELSE <<>>)
    /\ idx' = idx + 1
    /\ IF idx = Len(serviceURL.URLs)
       THEN pc' = "done" /\ ret' = NilErr
       ELSE UNCHANGED <<pc, ret>>
    /\ UNCHANGED <<urlVars, clusterVars, resVars, addonVars, listVars, secVars, args, elapsed, sleep,
                   pollLog, resolverCalls, resolved, serviceURL>>

\* one iteration of the loop over serviceURL.URLs; after the last one
\* WaitAndMaybeOpenService returns nil
HandleURL ==
    /\ pc = "urls"
    /\ LET bareURLString == serviceURL.URLs[idx]
           o == OptionallyHTTPSFormattedURLString(bareURLString, args.https)
           urlString == o[1]
           isHTTPSchemedURL == o[2]
       IN  IF args.urlMode \/ ~isHTTPSchemedURL
           THEN events' = Append(events, URLLine(urlString))
           ELSE \E browserFails \in BOOLEAN :
                   events' = events \o <<OpeningNotice, BrowserLaunch(urlString)>>
                             \o (IF browserFails THEN <<BrowserFailedLine(urlString)>>
                                 ELSE <<>>)
    /\ idx' = idx + 1
    /\ IF idx = Len(serviceURL.URLs)
       THEN pc' = "done" /\ ret' = NilErr
       ELSE UNCHANGED <<pc, ret>>
    /\ UNCHANGED <<urlVars, clusterVars, resVars, addonVars, listVars, secVars, args, elapsed, sleep, pollLog,
                   resolverCalls, resolved, serviceURL>>

\* the cluster, between two steps of the operation: the target service is
\* created, deleted or replaced
ClusterChange ==
    /\ pc \in {"polling", "ready"}
    /\ \E svc \in OrchServices :
          /\ svc # services[TargetService]
          /\ services' = [services EXCEPT ![TargetService] = svc]
    /\ UNCHANGED <<urlVars, endpoints, resVars, addonVars, listVars, orchVars, secVars>>

Next == Begin \/ PollAttempt \/ ResolveAndReport \/ HandleURL \/ ClusterChange

Spec == OrchInit /\ [][Next]_vars

\* the operation runs on the calling thread and retry.Expo's sleeps end: a
\* CheckService call that is due is made
FairSpec == Spec /\ WF_vars(Begin) /\ WF_vars(PollAttempt)

----------------------------------------------------------------------------
(* Claims about WaitAndMaybeOpenService, checked under Spec and FairSpec.  *)

LastPoll == pollLog[Len(pollLog)]

PollWrap(err) ==
    Wrap(err, "Could not find finalized endpoint being pointed to by %s", args.service)

\* every CheckService call so far had a client and failed to fetch the service
NeverFound ==
    /\ pollLog # <<>>
    /\ \A i \in 1..Len(pollLog) : ~pollLog[i].clientErr /\ ~pollLog[i].found

\* nothing was printed and no browser was launched
NoOutput == events = <<>>

\* C2, the final state: when no CheckService call found the service, the
\* operation ends only with the wait budget used up, returning an error
\* that names the service and wraps the retriable error of the last call,
\* with no resolver call and no output.
PollExhausted ==
    pc = "done" /\ NeverFound =>
        /\ elapsed + sleep > args.wait
        /\ IsRetriable(LastPoll.err)
        /\ ret = PollWrap(LastPoll.err)
        /\ ret[1].arg = args.service
        /\ resolverCalls = 0
        /\ NoOutput

\* C2: polling always comes to an end, and a run in which the service is
\* never found ends as PollExhausted says; until then nothing is resolved,
\* printed or opened.
C2_NeverFoundFailsAfterBudget ==
    /\ [](PollExhausted)
    /\ [](NeverFound => resolverCalls = 0 /\ NoOutput)
    /\ (pc = "polling") ~> (pc = "done" \/ pc = "ready")
    /\ NeverFound ~> (pc = "done" \/ ~NeverFound)

\* three calls, all of them not finding the service, and the budget used up
C2_Witness ==
    /\ pc = "done"
    /\ NeverFound
    /\ Len(pollLog) = 3
    /\ ret = PollWrap(RetriableError(Wrap(NotFound(args.service),
                                          "Error getting service %s", args.service)))

\* a CheckService call that had a client, fetched the service and saw ports
Findable(p) == ~p.clientErr /\ p.found /\ p.ports > 0

\* C3: a CheckService call that finds the service with at least one port
\* returns nil, is the last call of the polling, and is followed by the
\* resolution with no further sleep; and the resolver is only called after
\* such a call.
C3_FirstSuccessEndsPolling ==
    /\ \A i \in 1..Len(pollLog) :
          Findable(pollLog[i]) =>
              /\ pollLog[i].err = NilErr
              /\ i = Len(pollLog)
              /\ elapsed = pollLog[i].at
              /\ pc \in {"ready", "urls", "done"}
              /\ pc = "done" => resolverCalls = 1
    /\ pc \in {"ready", "urls"} \/ resolverCalls > 0 =>
          pollLog # <<>> /\ LastPoll.err = NilErr /\ Findable(LastPoll)

\* absent at the first call, found at the second, with budget left over,
\* and the resolver called
C3_Witness ==
    /\ Len(pollLog) = 2
    /\ ~pollLog[1].clientErr /\ ~pollLog[1].found
    /\ Findable(pollLog[2])
    /\ elapsed + sleep <= args.wait
    /\ resolverCalls = 1

\* C4: a CheckService call that finds the service without ports returns an
\* error that is not retriable; it is the last call whatever budget is left,
\* and the operation returns that error, wrapped, with no resolver call and
\* no output.
C4_NoPortsFailsAtOnce ==
    \A i \in 1..Len(pollLog) :
        ~pollLog[i].clientErr /\ pollLog[i].found /\ pollLog[i].ports = 0 =>
            /\ pollLog[i].err # NilErr
            /\ ~IsRetriable(pollLog[i].err)
            /\ i = Len(pollLog)
            /\ elapsed = pollLog[i].at
            /\ pc = "done"
            /\ ret = PollWrap(pollLog[i].err)
            /\ resolverCalls = 0
            /\ NoOutput

\* a single call, at time 0, with the largest budget unused
C4_Witness ==
    /\ Len(pollLog) = 1
    /\ pollLog[1].found /\ pollLog[1].ports = 0
    /\ args.wait = MaxWait
    /\ elapsed = 0
    /\ pc = "done"

\* the resolver met no failure and found the service with ports, none of
\* them with a node port > 0
ResolvedWithoutNodePort ==
    /\ resolverCalls > 0
    /\ resolved.fail = {}
    /\ args.t # NilTemplate
    /\ resolved.svc # NoObject
    /\ Len(resolved.svc.Ports) > 0
    /\ \A i \in 1..Len(resolved.svc.Ports) : resolved.svc.Ports[i].NodePort <= 0

\* C7: when the service the resolver finds has ports but none with a node
\* port > 0, the URL list is empty, the operation returns nil, and its
\* output is the table (outside URL mode) followed by the no-node-port
\* notice: no URL line, no browser launch.
C7_NoNodePortIsSuccess ==
    ResolvedWithoutNodePort =>
        /\ pc = "done"
        /\ ret = NilErr
        /\ serviceURL.URLs = <<>>
        /\ serviceURL.PortNames = <<>>
        /\ events = (IF args.urlMode THEN <<>>
                     ELSE <<Event("PrintServiceList", NoNodePortCell, <<>>)>>)
                    \o <<NoNodePortNotice>>

C7_Witness ==
    /\ ResolvedWithoutNodePort
    /\ ~args.urlMode
    /\ Len(events) = 2
    /\ pc = "done"

\* C11: before the retry loop starts, a wait budget of zero and an interval
\* of zero are both raised to one second, so that retry.Expo is never called
\* with a zero interval or a zero total budget.
C11_WaitAndIntervalNormalised ==
    pc # "start" => sleep >= 1 /\ ExpoMaxTime >= 1

\* the lines that print a URL and the browser launches, in order
UrlActions ==
    SelectSeq(events, LAMBDA e : e.kind \in {"out.T(Empty)", "browser.OpenURL"})

\* the number of URLs the loop has dealt with
Processed == IF idx = 0 THEN 0 ELSE idx - 1

BrowserFailedAt(k) == events[k].kind = "out.ErrT: browser failed to open url"

BrowserFailed == \E k \in 1..Len(events) : BrowserFailedAt(k)

\* C12: a browser that fails to open is reported right after its launch and
\* changes nothing else: the loop goes on with the next URL, every URL of the
\* service gets its line or its launch, in the order of the resolved list,
\* and the operation returns nil.
C12_BrowserFailureIsNotFatal ==
    /\ \A k \in 1..Len(events) :
          BrowserFailedAt(k) => k > 1 /\ events[k - 1] = BrowserLaunch(events[k].text)
    /\ BrowserFailed =>
          /\ pc \in {"urls", "done"}
          /\ Len(UrlActions) = Processed
          /\ pc = "urls" => idx <= Len(serviceURL.URLs)
          /\ pc = "done" =>
                /\ ret = NilErr
                /\ Processed = Len(serviceURL.URLs)
                /\ \A i \in 1..Len(serviceURL.URLs) :
                      UrlActions[i].text =
                          OptionallyHTTPSFormattedURLString(serviceURL.URLs[i], args.https)[1]

\* the browser failed for the first of two URLs and was launched again for
\* the second
C12_Witness ==
    /\ pc = "done"
    /\ ret = NilErr
    /\ Len(serviceURL.URLs) = 2
    /\ \E k \in 1..Len(events) :
          /\ BrowserFailedAt(k)
          /\ \E j \in (k + 1)..Len(events) : events[j].kind = "browser.OpenURL"

GuidanceFrame ==
    Frame("Check that minikube is running and that you have specified the correct namespace", "")

\* the resolver was called and the operation returned its error, wrapped
ResolverFailed == resolverCalls > 0 /\ ret # NilErr /\ ret[1] = GuidanceFrame

\* the last CheckService call found the service, and the resolver's own
\* fetch, after it, did not
VanishedBeforeResolve ==
    /\ resolverCalls > 0
    /\ Findable(LastPoll)
    /\ resolved.svc = NoObject

\* the moves of the operation from one phase to the next
PhaseMoves ==
    { <<"start", "polling">>, <<"polling", "ready">>, <<"polling", "done">>,
      <<"ready", "urls">>, <<"ready", "done">>, <<"urls", "done">> }

\* in every state: the resolver was called at most once and after a
\* CheckService call that returned nil; there is output only if the resolver
\* was called and returned no error; and a service that vanished before the
\* resolver's fetch ends the operation with the wrapped error and no output
PhasesInOrder ==
    /\ resolverCalls <= 1
    /\ resolverCalls > 0 <=> pc \in {"urls", "done"} /\ pollLog # <<>> /\ LastPoll.err = NilErr
    /\ events # <<>> => resolverCalls = 1 /\ ~ResolverFailed /\ ret = NilErr
    /\ pc = "urls" => ~ResolverFailed /\ Len(serviceURL.URLs) > 0
    /\ VanishedBeforeResolve =>
          /\ pc = "done"
          /\ ResolverFailed
          /\ Len(ret) > 1
          /\ events = <<>>
          /\ serviceURL = EmptySvcURL
    /\ VanishedBeforeResolve /\ resolved.fail = {} /\ args.t # NilTemplate =>
          ret = <<GuidanceFrame>>
                \o Wrap(NotFound(args.service), "service '%s' could not be found running",
                        args.service)

\* C15: the phases follow one another in one order only (polling, then the
\* resolver, then the report), the resolver is called only after a
\* CheckService call that succeeded, every table, URL line and browser launch
\* comes after a resolver call that returned no error, and when the service
\* is deleted between the successful poll and the resolver's fetch the
\* operation ends with the wrapped error and without output.
C15_PhasesStrictlyOrdered ==
    /\ [](PhasesInOrder)
    /\ [][ /\ pc' # pc => <<pc, pc'>> \in PhaseMoves
           /\ resolverCalls' # resolverCalls => pc = "ready" /\ events = <<>>
           /\ events' # events => pc \in {"ready", "urls"}
         ]_vars

\* found by the poll, gone at the resolver's fetch, outside URL mode
C15_Witness ==
    /\ VanishedBeforeResolve
    /\ resolved.fail = {}
    /\ args.t = DefaultTemplate
    /\ ~args.urlMode
    /\ pc = "done"
    /\ events = <<>>

\* the URL as printed or opened: with https for http when the flag is set
\* and the URL parses with the scheme http
Upgraded(u) ==
    IF args.https /\ ParsesAsHTTP(u) THEN ReplaceFirst(u, HTTP, HTTPS) ELSE u

\* the one thing done with a resolved URL
DispatchOf(u) ==
    IF args.urlMode THEN URLLine(Upgraded(u))
    ELSE IF ParsesAsHTTP(u) THEN BrowserLaunch(Upgraded(u))
    ELSE URLLine(u)

Tables == SelectSeq(events, LAMBDA e : e.kind = "PrintServiceList")

\* C16: each resolved URL gets exactly one line or one browser launch, in
\* the order of the resolved list: in URL mode always a line (with https for
\* http when the flag is set) and never a launch; outside URL mode a line
\* when the URL does not parse with the scheme http and a launch otherwise.
\* The table is printed once, first, and only outside URL mode.
C16_PerURLDispatch ==
    /\ Len(UrlActions) = Processed
    /\ \A i \in 1..Processed : UrlActions[i] = DispatchOf(serviceURL.URLs[i])
    /\ pc = "done" /\ Len(serviceURL.URLs) > 0 => Processed = Len(serviceURL.URLs)
    /\ args.urlMode =>
          \A k \in 1..Len(events) :
              events[k].kind = "out.T(Empty)" \/ events[k] = NoNodePortNotice
    /\ ~args.urlMode =>
          /\ Len(Tables) = IF resolverCalls = 1 /\ ~ResolverFailed THEN 1 ELSE 0
          /\ Tables # <<>> => events[1] = TableEvent(serviceURL)
    /\ \A k \in 1..Len(events) :
          events[k].kind = "browser.OpenURL" => k > 1 /\ events[k - 1] = OpeningNotice

\* outside URL mode, with the flag set: the table, then two http URLs opened
\* as https
C16_Witness ==
    /\ pc = "done"
    /\ ~args.urlMode
    /\ args.https
    /\ Len(serviceURL.URLs) = 2
    /\ Len(Tables) = 1
    /\ \A i \in 1..2 :
          /\ UrlActions[i].kind = "browser.OpenURL"
          /\ HasPrefix(UrlActions[i].text, HTTPSPrefix)
          /\ HasPrefix(serviceURL.URLs[i], HTTPPrefix)

\* a CheckService call that had a client and failed to fetch the service
FetchFailed(p) == ~p.clientErr /\ ~p.found

\* C17: the error of a CheckService call is retriable exactly when the call
\* had a client and failed to fetch the service; the retry loop calls
\* CheckService again only after such a call; and a call that has no client,
\* or finds the service without ports, returns a plain error and is the last
\* call, the operation returning that error wrapped, whatever budget is left.
C17_OnlyFetchFailureRetriable ==
    \A i \in 1..Len(pollLog) :
        LET p == pollLog[i] IN
        /\ IsRetriable(p.err) <=> FetchFailed(p)
        /\ i < Len(pollLog) => FetchFailed(p)
        /\ p.clientErr \/ (p.found /\ p.ports = 0) =>
              /\ p.err # NilErr
              /\ ~IsRetriable(p.err)
              /\ i = Len(pollLog)
              /\ elapsed = p.at
              /\ pc = "done"
              /\ ret = PollWrap(p.err)

\* a first call that failed to fetch, a second call that had no client, and
\* no third call although the budget was not used up
C17_Witness ==
    /\ Len(pollLog) = 2
    /\ FetchFailed(pollLog[1])
    /\ pollLog[2].clientErr
    /\ elapsed + sleep <= args.wait
    /\ pc = "done"

----------------------------------------------------------------------------
(* GetServiceURLs, step by step: the calls up to Services.List, then one   *)
(* step per item of the answer (a printURLsForService call), then the      *)
(* return.  The cluster may change between the steps.                      *)

\* what a List answers for a service: the object's name and namespace are
\* all the loop reads of it
ListItem(svc) == [Name |-> svc.Name, Namespace |-> svc.Namespace]

\* the states of one service of the namespace while GetServiceURLs runs
ListedService(n) ==
    { NoObject,
      Service(n, <<ServicePort(0, 80)>>),
      Service(n, <<ServicePort(8, 80), ServicePort(30, 443)>>) }

ListTemplates == {NilTemplate, DefaultTemplate, FailingTemplate}

\* the orders in which Services.List may answer the services it holds
ListOrders == {<<"web", "db">>, <<"db", "web">>}

\* the failures the calls before the loop can meet, and one resolution
ListFailures == {{}} \cup {{f} : f \in HostCalls \cup {"Services.List"}}
ItemFailures == {{}} \cup {{f} : f \in APICalls}

ListInit ==
    /\ urlIn = <<>>
    /\ urlOut = [https \in BOOLEAN |-> NotCalled]
    /\ \E web \in ListedService("web"), db \in ListedService("db") :
          services = [n \in SvcNames |-> IF n = "web" THEN web ELSE db]
    /\ endpoints = [n \in SvcNames |-> OrchEndpoints]
    /\ resArgs = <<>>
    /\ resOut = <<>>
    /\ \E t \in ListTemplates : listArgs = [t |-> t]
    /\ listPc = "start"
    /\ svcs = <<>>
    /\ serviceURLs = <<>>
    /\ listRet = NotCalled
    /\ AddonIdle
    /\ OrchIdle
    /\ SecretsIdle

\* return nil, err / return serviceURLs, nil
ListReturn(urls, err) == [urls |-> urls, err |-> err]

\* GetServiceURLs from its entry to the answer of serviceInterface.List
GetServiceURLsList ==
    /\ listPc = "start"
    /\ \E fail \in ListFailures, order \in ListOrders :
          IF "CheckIfHostExistsAndLoad" \in fail
          THEN /\ listRet' = ListReturn(<<>>, NewError("machine does not exist", ""))
               /\ listPc' = "done"
               /\ UNCHANGED svcs
          ELSE IF "GetIP" \in fail
          THEN /\ listRet' = ListReturn(<<>>, NewError("IP not found", ""))
               /\ listPc' = "done"
               /\ UNCHANGED svcs
          ELSE IF "GetCoreClient" \in fail
          THEN /\ listRet' = ListReturn(<<>>, GetCoreClientErr)
               /\ listPc' = "done"
               /\ UNCHANGED svcs
          ELSE IF "Services.List" \in fail
          THEN /\ listRet' = ListReturn(<<>>, ConnRefused)
               /\ listPc' = "done"
               /\ UNCHANGED svcs
          ELSE /\ svcs' = [i \in 1..Len(SelectSeq(order, LAMBDA n : services[n] # NoObject)) |->
                             ListItem(services[SelectSeq(order,
                                                         LAMBDA n : services[n] # NoObject)[i]])]
               /\ listPc' = "loop"
               /\ UNCHANGED listRet
    /\ UNCHANGED <<urlVars, clusterVars, resVars, addonVars, listArgs, serviceURLs, orchVars, secVars>>

\* mutant: the error of a resolution is dropped and the loop goes on
GetServiceURLsItem_IgnoresError ==
    /\ listPc = "loop"
    /\ Len(serviceURLs) < Len(svcs)
    /\ \E fail \in ItemFailures :
          LET svc == svcs[Len(serviceURLs) + 1]
              r == printURLsForService(Client(fail), NodeIP, svc.Name, svc.Namespace,
                                       listArgs.t)
          IN  /\ serviceURLs' = Append(serviceURLs, r.url)
              /\ UNCHANGED <<listPc, listRet>>
    /\ UNCHANGED <<urlVars, clusterVars, resVars, addonVars, listArgs, svcs, orchVars, secVars>>

\* one iteration of the loop over svcs.Items
GetServiceURLsItem ==
    /\ listPc = "loop"
    /\ Len(serviceURLs) < Len(svcs)
    /\ \E fail \in ItemFailures :
          LET svc == svcs[Len(serviceURLs) + 1]
              r == printURLsForService(Client(fail), NodeIP, svc.Name, svc.Namespace,
                                       listArgs.t)
          IN  IF r.err # NilErr
              THEN /\ listRet' = ListReturn(<<>>, r.err)
                   /\ listPc' = "done"
                   /\ UNCHANGED serviceURLs
              ELSE /\ serviceURLs' = Append(serviceURLs, r.url)
                   /\ UNCHANGED <<listPc, listRet>>
    /\ UNCHANGED <<urlVars, clusterVars, resVars, addonVars, listArgs, svcs, orchVars, secVars>>

\* return serviceURLs, nil
GetServiceURLsReturn ==
    /\ listPc = "loop"
    /\ Len(serviceURLs) = Len(svcs)
    /\ listRet' = ListReturn(serviceURLs, NilErr)
    /\ listPc' = "done"
    /\ UNCHANGED <<urlVars, clusterVars, resVars, addonVars, listArgs, svcs, serviceURLs, orchVars,
                   secVars>>

\* the cluster, between two steps of GetServiceURLs: a service is created,
\* deleted or replaced
ListClusterChange ==
    /\ listPc = "loop"
    /\ \E n \in SvcNames : \E svc \in ListedService(n) :
          /\ svc # services[n]
          /\ services' = [services EXCEPT ![n] = svc]
    /\ UNCHANGED <<urlVars, endpoints, resVars, addonVars, listVars, orchVars, secVars>>

ListNext ==
    GetServiceURLsList \/ GetServiceURLsItem \/ GetServiceURLsReturn \/ ListClusterChange

SpecList == ListInit /\ [][ListNext]_vars

----------------------------------------------------------------------------
(* Claims about GetServiceURLs, checked under SpecList.                    *)

\* the item the loop resolves next
NextItem == svcs[Len(serviceURLs) + 1]

\* the final result: on success one SvcURL per listed service, in listing
\* order and named after it; with an error, no list
ListResult ==
    listPc = "done" =>
        /\ listRet.err = NilErr =>
              /\ Len(listRet.urls) = Len(svcs)
              /\ \A i \in 1..Len(svcs) :
                    /\ listRet.urls[i].Name = svcs[i].Name
                    /\ listRet.urls[i].Namespace = svcs[i].Namespace
        /\ listRet.err # NilErr => listRet.urls = <<>>

\* one step of the loop: it appends the SvcURL of the next item, or it ends
\* the call with an error and no list; and it ends the call so when the
\* next item is no longer in the cluster
ListStep ==
    listPc = "loop" /\ Len(serviceURLs) < Len(svcs) /\ listVars' # listVars =>
        /\ \/ /\ listPc' = "loop"
              /\ serviceURLs' = Append(serviceURLs, serviceURLs'[Len(serviceURLs')])
              /\ serviceURLs'[Len(serviceURLs')].Name = NextItem.Name
           \/ /\ listPc' = "done"
              /\ listRet'.err # NilErr
              /\ listRet'.urls = <<>>
        /\ services[NextItem.Name] = NoObject =>
              /\ listPc' = "done"
              /\ listRet'.err # NilErr
              /\ listRet'.urls = <<>>

\* C14: GetServiceURLs returns, on success, exactly one SvcURL per service
\* of the listing, in listing order; when the resolution of one listed
\* service fails, as it does when the service was deleted after the listing,
\* the call returns an error and no list.
C14_OnePerListedServiceOrError == [](ListResult) /\ [][ListStep]_vars

\* two services were listed, the first was resolved, the second was deleted
\* before its turn, and the call returned the error without a list
C14_Witness ==
    /\ listPc = "done"
    /\ Len(svcs) = 2
    /\ Len(serviceURLs) = 1
    /\ services[svcs[2].Name] = NoObject
    /\ listRet = ListReturn(<<>>, Wrap(NotFound(svcs[2].Name),
                                        "service '%s' could not be found running",
                                        svcs[2].Name))

----------------------------------------------------------------------------
(* Addon.IsEnabled (src/pkg/minikube/assets/addons.go).  An addon carries  *)
(* the default NewAddon was given; the persisted configuration is a file   *)
(* that may be unreadable and otherwise maps names to the text of their    *)
(* values.                                                                 *)

\* NewAddon(assets, enabled, addonName)
NewAddon(assets, enabled, addonName) ==
    [Assets |-> assets, enabled |-> enabled, addonName |-> addonName]

\* config.Get(name): [text, err]; it fails when the configuration cannot be
\* read and when it has no entry of the name
ConfigGet(cfg, name) ==
    IF ~cfg.readable
    THEN [text |-> "", err |-> NewError("cannot read config", "")]
    ELSE IF name \notin DOMAIN cfg.entries
    THEN [text |-> "", err |-> NewError("specified key could not be found in config", name)]
    ELSE [text |-> cfg.entries[name], err |-> NilErr]

\* strconv.ParseBool(str): [value, err]
ParseBool(str) ==
    CASE str = "1" \/ str = "t" \/ str = "T" \/ str = "TRUE" \/ str = "true" \/ str = "True" ->
             [value |-> TRUE, err |-> NilErr]
      [] str = "0" \/ str = "f" \/ str = "F" \/ str = "FALSE" \/ str = "false" \/ str = "False" ->
             [value |-> FALSE, err |-> NilErr]
      [] OTHER ->
             [value |-> FALSE, err |-> NewError("strconv.ParseBool: invalid syntax", str)]

\* mutant: a value that is not a boolean falls back to the default
IsEnabled_DefaultOnParseError(a, cfg) ==
    LET got == ConfigGet(cfg, a.addonName) IN
    IF got.err = NilErr
    THEN LET parsed == ParseBool(got.text) IN
         IF parsed.err # NilErr THEN <<a.enabled, NilErr>>
         ELSE <<parsed.value, NilErr>>
    ELSE <<a.enabled, NilErr>>

\* (a *Addon) IsEnabled(): the pair (bool, error)
IsEnabled(a, cfg) ==
    LET got == ConfigGet(cfg, a.addonName) IN
    IF got.err = NilErr
    THEN LET parsed == ParseBool(got.text) IN
         IF parsed.err # NilErr THEN <<FALSE, parsed.err>>
         ELSE <<parsed.value, NilErr>>
    ELSE <<a.enabled, NilErr>>

AddonNames == {"dashboard", "ingress"}

\* the texts strconv.ParseBool reads as true and as false, and texts it
\* refuses
TrueTexts == {"1", "t", "T", "TRUE", "true", "True"}
FalseTexts == {"0", "f", "F", "FALSE", "false", "False"}
OtherTexts == {"", "yes", "tRuE", "2", "enabled"}
ConfigTexts == TrueTexts \cup FalseTexts \cup OtherTexts

\* the persisted configurations: unreadable or readable, with an entry for
\* none, one or both of the addons
Configs ==
    { [readable |-> r, entries |-> e] :
        r \in BOOLEAN,
        e \in UNION { [names -> ConfigTexts] : names \in SUBSET AddonNames } }

AddonInit ==
    /\ urlIn = <<>>
    /\ urlOut = [https \in BOOLEAN |-> NotCalled]
    /\ services = [n \in SvcNames |-> NoObject]
    /\ endpoints = [n \in SvcNames |-> NoObject]
    /\ resArgs = <<>>
    /\ resOut = <<>>
    /\ \E enabled \in BOOLEAN, addonName \in AddonNames :
          addon = NewAddon(<<>>, enabled, addonName)
    /\ config \in Configs
    /\ isEnabledOut = NotCalled
    /\ ListIdle
    /\ OrchIdle
    /\ SecretsIdle

\* one call a.IsEnabled()
CallIsEnabled ==
    /\ isEnabledOut = NotCalled
    /\ isEnabledOut' = IsEnabled(addon, config)
    /\ UNCHANGED <<urlVars, clusterVars, resVars, addon, config, listVars, orchVars, secVars>>

AddonNext == CallIsEnabled

SpecAddon == AddonInit /\ [][AddonNext]_vars

----------------------------------------------------------------------------
(* Claims about Addon.IsEnabled, checked under SpecAddon.                  *)

\* the persisted configuration can be read and has an entry for the addon
HasEntry == config.readable /\ addon.addonName \in DOMAIN config.entries

EntryText == config.entries[addon.addonName]

\* C22: a persisted entry for the addon's name decides, whatever the default:
\* IsEnabled returns true for a text that reads as true and false for one
\* that reads as false, without error; for an entry that is not a boolean it
\* returns false and an error, never the default; and it returns the default
\* NewAddon was given, without error, exactly when the lookup fails.
C22_PersistedEntryOverridesDefault ==
    isEnabledOut # NotCalled =>
        /\ HasEntry /\ EntryText \in TrueTexts => isEnabledOut = <<TRUE, NilErr>>
        /\ HasEntry /\ EntryText \in FalseTexts => isEnabledOut = <<FALSE, NilErr>>
        /\ HasEntry /\ EntryText \notin TrueTexts \cup FalseTexts =>
              /\ isEnabledOut[1] = FALSE
              /\ isEnabledOut[2] # NilErr
        /\ ~HasEntry => isEnabledOut = <<addon.enabled, NilErr>>

\* an addon that is on by default, with a persisted entry that is not a
\* boolean: false, and an error
C22_Witness ==
    /\ isEnabledOut # NotCalled
    /\ addon.enabled
    /\ HasEntry
    /\ EntryText = "yes"
    /\ isEnabledOut[1] = FALSE
    /\ isEnabledOut[2] # NilErr

----------------------------------------------------------------------------
(* Secrets: CreateSecret and DeleteSecret.  The namespace holds a set of   *)
(* Secret objects; the API server refuses to create a second object of a   *)
(* name and to delete a name it does not hold.                             *)

SecretTypeOpaque == "Opaque"

Secret(name, labels, data) ==
    [Name |-> name, Labels |-> labels, Data |-> data, Type |-> SecretTypeOpaque]

\* the zero Secret the typed client hands back together with an error
EmptySecret == [Name |-> "", Labels |-> <<>>, Data |-> <<>>, Type |-> ""]

\* the byte of a character
ByteOf(c) ==
    CASE c = "a" -> 97
      [] c = "b" -> 98
      [] c = "x" -> 120

\* []byte(value)
Bytes(value) == [i \in 1..Len(value) |-> ByteOf(value[i])]

\* for key, value := range dataValues { data[key] = []byte(value) }
ToData(dataValues) == [key \in DOMAIN dataValues |-> Bytes(dataValues[key])]

AlreadyExists(name) == NewError("already exists", name)

Named(store, name) == {o \in store : o.Name = name}

\* secrets.Get(name): [obj, err]
SecretsGet(store, fail, name) ==
    IF "Secrets.Get" \in fail THEN [obj |-> EmptySecret, err |-> ConnRefused]
    ELSE IF Named(store, name) = {} THEN [obj |-> EmptySecret, err |-> NotFound(name)]
    ELSE [obj |-> CHOOSE o \in Named(store, name) : TRUE, err |-> NilErr]

\* secrets.Delete(name): [store, err]
SecretsDelete(store, fail, name) ==
    IF "Secrets.Delete" \in fail THEN [store |-> store, err |-> ConnRefused]
    ELSE IF Named(store, name) = {} THEN [store |-> store, err |-> NotFound(name)]
    ELSE [store |-> store \ Named(store, name), err |-> NilErr]

\* secrets.Create(secretObj): [store, err]
SecretsCreate(store, fail, secretObj) ==
    IF "Secrets.Create" \in fail THEN [store |-> store, err |-> ConnRefused]
    ELSE IF Named(store, secretObj.Name) # {}
    THEN [store |-> store, err |-> AlreadyExists(secretObj.Name)]
    ELSE [store |-> store \cup {secretObj}, err |-> NilErr]

\* mutant: deleting a secret that is not there counts as done
DeleteSecret_MissingIsSuccess(store, fail, namespace, name) ==
    IF "GetCoreClient" \in fail
    THEN [store |-> store, err |-> RetriableError(GetCoreClientErr)]
    ELSE LET r == SecretsDelete(store, fail, name) IN
         IF r.err # NilErr /\ r.err # NotFound(name)
         THEN [store |-> store, err |-> RetriableError(r.err)]
         ELSE [store |-> r.store, err |-> NilErr]

\* DeleteSecret(namespace, name): [store, err]
DeleteSecret(store, fail, namespace, name) ==
    IF "GetCoreClient" \in fail
    THEN [store |-> store, err |-> RetriableError(GetCoreClientErr)]
    ELSE LET r == SecretsDelete(store, fail, name) IN
         IF r.err # NilErr
         THEN [store |-> store, err |-> RetriableError(r.err)]
         ELSE [store |-> r.store, err |-> NilErr]

\* mutant: the test of the name is inverted, the delete is made when no
\* secret was found
createSecretLookup_InvertedTest(store, fail, name) ==
    LET secret == SecretsGet(store, fail, name).obj IN
    IF secret.Name = "" THEN "delete" ELSE "create"

\* mutant: a lookup that fails is taken for a secret that is there
createSecretLookup_ErrorMeansDelete(store, fail, name) ==
    LET got == SecretsGet(store, fail, name) IN
    IF got.err # NilErr /\ got.err # NotFound(name) THEN "delete"
    ELSE IF got.obj.Name # "" THEN "delete" ELSE "create"

\* mutant: the existing secret is never deleted before the create
createSecretLookup_NeverDeletes(store, fail, name) == "create"

\* CreateSecret up to its branch: secret, _ := secrets.Get(name), then the
\* delete when len(secret.Name) > 0
createSecretLookup(store, fail, name) ==
    LET secret == SecretsGet(store, fail, name).obj IN
    IF secret.Name # "" THEN "delete" ELSE "create"

----------------------------------------------------------------------------
(* Callers of the secret operations.  A CreateSecret call is three steps,  *)
(* one per API call, and the calls of two callers interleave.              *)

MaxSecretCalls == 2

CallerIds == {"c1", "c2"}

SecretName == "creds"
OtherSecretName == "other"
SecretLabels == [k \in {"app"} |-> "minikube"]

Values1 == [k \in {"k1"} |-> <<"a">>]
Values2 == [k \in {"k1"} |-> <<"b">>]
Values3 == [k \in {"k2"} |-> <<"a", "b">>]
DataValues == {Values1, Values2, Values3}

NoValues == <<>>

\* deleted: the call has deleted the secret it found
IdleCaller == [pc |-> "idle", data |-> NoValues, faults |-> {}, deleted |-> FALSE]

\* the secrets the namespace may hold before the first call
InitialSecrets ==
    SUBSET { Secret(OtherSecretName, SecretLabels, ToData(Values1)),
             Secret(SecretName, SecretLabels, ToData([k \in {"k0"} |-> <<"x">>])) }

SecretInit ==
    /\ urlIn = <<>>
    /\ urlOut = [https \in BOOLEAN |-> NotCalled]
    /\ services = [n \in SvcNames |-> NoObject]
    /\ endpoints = [n \in SvcNames |-> NoObject]
    /\ resArgs = <<>>
    /\ resOut = <<>>
    /\ AddonIdle
    /\ ListIdle
    /\ OrchIdle
    /\ secrets \in InitialSecrets
    /\ callers = [p \in CallerIds |-> IdleCaller]
    /\ secLog = <<>>

CallsStarted == Len(secLog) + Cardinality({p \in CallerIds : callers[p].pc # "idle"})

\* a call that returned: who made it, with what, the failures it met, whether
\* it deleted a secret before its create, and the error it returned
Returned(p, op, data, faults, deleted, err) ==
    [caller |-> p, op |-> op, data |-> data, faults |-> faults, deleted |-> deleted,
     err |-> err]

\* CreateSecret, from its entry to the answer of secrets.Get
CreateSecretBegin(p, dataValues) ==
    /\ callers[p].pc = "idle"
    /\ CallsStarted < MaxSecretCalls
    /\ \E fail \in {{}, {"GetCoreClient"}, {"Secrets.Get"}} :
          IF "GetCoreClient" \in fail
          THEN /\ secLog' = Append(secLog, Returned(p, "CreateSecret", dataValues, fail, FALSE,
                                                    RetriableError(GetCoreClientErr)))
               /\ UNCHANGED callers
          ELSE /\ callers' = [callers EXCEPT ![p] =
                                [pc |-> createSecretLookup(secrets, fail, SecretName),
                                 data |-> dataValues, faults |-> fail,
                                 deleted |-> FALSE]]
               /\ UNCHANGED secLog
    /\ UNCHANGED <<urlVars, clusterVars, resVars, addonVars, listVars, orchVars, secrets>>

\* CreateSecret: err = DeleteSecret(namespace, name)
CreateSecretDelete(p) ==
    /\ callers[p].pc = "delete"
    /\ \E fail \in {{}, {"GetCoreClient"}, {"Secrets.Delete"}} :
          LET r == DeleteSecret(secrets, fail, Namespace, SecretName)
              faults == callers[p].faults \cup fail
          IN  IF r.err # NilErr
              THEN /\ secLog' = Append(secLog, Returned(p, "CreateSecret", callers[p].data,
                                                        faults, FALSE,
                                                        RetriableError(r.err)))
                   /\ callers' = [callers EXCEPT ![p] = IdleCaller]
                   /\ UNCHANGED secrets
              ELSE /\ secrets' = r.store
                   /\ callers' = [callers EXCEPT ![p].pc = "create", ![p].faults = faults,
                                                 ![p].deleted = TRUE]
                   /\ UNCHANGED secLog
    /\ UNCHANGED <<urlVars, clusterVars, resVars, addonVars, listVars, orchVars>>

\* CreateSecret: the conversion of the values and secrets.Create(secretObj)
CreateSecretCreate(p) ==
    /\ callers[p].pc = "create"
    /\ \E fail \in {{}, {"Secrets.Create"}} :
          LET secretObj == Secret(SecretName, SecretLabels, ToData(callers[p].data))
              r == SecretsCreate(secrets, fail, secretObj)
          IN  /\ secrets' = r.store
              /\ secLog' = Append(secLog,
                    Returned(p, "CreateSecret", callers[p].data, callers[p].faults \cup fail,
                             callers[p].deleted,
                             IF r.err # NilErr THEN RetriableError(r.err) ELSE NilErr))
    /\ callers' = [callers EXCEPT ![p] = IdleCaller]
    /\ UNCHANGED <<urlVars, clusterVars, resVars, addonVars, listVars, orchVars>>

\* a call of DeleteSecret(namespace, name) of its own
CallDeleteSecret(p) ==
    /\ callers[p].pc = "idle"
    /\ CallsStarted < MaxSecretCalls
    /\ \E fail \in {{}, {"GetCoreClient"}, {"Secrets.Delete"}} :
          LET r == DeleteSecret(secrets, fail, Namespace, SecretName) IN
          /\ secrets' = r.store
          /\ secLog' = Append(secLog, Returned(p, "DeleteSecret", NoValues, fail, FALSE, r.err))
    /\ UNCHANGED <<urlVars, clusterVars, resVars, addonVars, listVars, orchVars, callers>>

SecretNext ==
    \E p \in CallerIds :
        \/ \E dataValues \in DataValues : CreateSecretBegin(p, dataValues)
        \/ CreateSecretDelete(p)
        \/ CreateSecretCreate(p)
        \/ CallDeleteSecret(p)

SpecSecret == SecretInit /\ [][SecretNext]_vars

----------------------------------------------------------------------------
(* Claims about the secret operations, checked under SpecSecret.           *)

AllIdle == \A p \in CallerIds : callers[p].pc = "idle"

\* two CreateSecret calls of one caller have returned, none met a failing
\* client or API call, their values differ, and nothing else ran
TwoCreatesInSequence ==
    /\ Len(secLog) = 2
    /\ AllIdle
    /\ secLog[1].caller = secLog[2].caller
    /\ \A i \in 1..2 : secLog[i].op = "CreateSecret" /\ secLog[i].faults = {}
    /\ secLog[1].data # secLog[2].data

\* C5: after two CreateSecret calls in sequence for the same name with
\* different values, without failures and without another writer, both
\* calls have returned nil and the namespace holds exactly one secret of
\* that name, whose data are the bytes of the second call's values only.
C5_SecondCreateReplaces ==
    TwoCreatesInSequence =>
        /\ secLog[1].err = NilErr
        /\ secLog[2].err = NilErr
        /\ Cardinality(Named(secrets, SecretName)) = 1
        /\ \A o \in Named(secrets, SecretName) :
              /\ DOMAIN o.Data = DOMAIN secLog[2].data
              /\ \A key \in DOMAIN o.Data :
                    /\ Len(o.Data[key]) = Len(secLog[2].data[key])
                    /\ \A i \in 1..Len(o.Data[key]) :
                          o.Data[key][i] = ByteOf(secLog[2].data[key][i])

\* the second call wrote under another key than the first
C5_Witness ==
    /\ TwoCreatesInSequence
    /\ secLog[1].data = Values1
    /\ secLog[2].data = Values3
    /\ Cardinality(secrets) = 2

\* C6: a DeleteSecret call made while the namespace holds no secret of the
\* name returns a retriable error and leaves the secrets as they were; so
\* does the DeleteSecret call CreateSecret makes, whose error CreateSecret
\* hands on inside its own retriable error.
C6_DeleteMissingIsRetriable ==
    [][ /\ Named(secrets, SecretName) = {}
        /\ Len(secLog') = Len(secLog) + 1
        /\ \/ secLog'[Len(secLog')].op = "DeleteSecret"
           \/ callers[secLog'[Len(secLog')].caller].pc = "delete"
        => /\ secrets' = secrets
           /\ LET e == secLog'[Len(secLog')]
                  err == IF e.op = "DeleteSecret" THEN e.err ELSE Tail(e.err)
              IN  err # NilErr /\ IsRetriable(err)
      ]_vars

\* a DeleteSecret call that met no failure, found nothing to delete, and
\* left the other secret of the namespace in place
C6_Witness ==
    /\ secLog # <<>>
    /\ secLog[Len(secLog)].op = "DeleteSecret"
    /\ secLog[Len(secLog)].faults = {}
    /\ secLog[Len(secLog)].err = RetriableError(NotFound(SecretName))
    /\ Cardinality(secrets) = 1

\* a step in which the lookup of caller p's CreateSecret fails: the error
\* is dropped and the call goes on to the create, without a delete
LookupErrorIgnored(p) ==
    callers[p].pc = "idle" /\ callers'[p].pc # "idle" /\ "Secrets.Get" \in callers'[p].faults =>
        /\ callers'[p].pc = "create"
        /\ ~callers'[p].deleted
        /\ secrets' = secrets

\* a step in which the delete of caller p's CreateSecret fails: the call
\* returns a retriable error, no create is made, and the secrets are as
\* they were
DeleteFailureReturns(p) ==
    callers[p].pc = "delete" /\ callers'[p].pc = "idle" =>
        /\ secrets' = secrets
        /\ Len(secLog') = Len(secLog) + 1
        /\ LET e == secLog'[Len(secLog')] IN
              /\ e.caller = p /\ e.op = "CreateSecret" /\ ~e.deleted
              /\ IsRetriable(e.err)

\* a step in which the create of caller p's CreateSecret fails after the
\* call has deleted the secret it found
CreateFailsAfterDelete(p) ==
    /\ callers[p].pc = "create"
    /\ callers[p].deleted
    /\ callers'[p].pc = "idle"
    /\ secLog'[Len(secLog')].err # NilErr

\* another caller's CreateSecret has returned nil
OtherWriterCreated(p) ==
    \E k \in 1..Len(secLog) :
        secLog[k].caller # p /\ secLog[k].op = "CreateSecret" /\ secLog[k].err = NilErr

\* C20 as stated: a lookup error is ignored; a failed delete makes
\* CreateSecret return a retriable error without a create and with the
\* secrets as they were; and after a create that fails following a
\* successful delete, CreateSecret returns a retriable error and the
\* namespace holds no secret of the name.
C20_AsStated ==
    [][ \A p \in CallerIds :
          /\ LookupErrorIgnored(p)
          /\ DeleteFailureReturns(p)
          /\ CreateFailsAfterDelete(p) =>
                /\ IsRetriable(secLog'[Len(secLog')].err)
                /\ Named(secrets', SecretName) = {}
      ]_vars

\* C20, amended: as stated, except that after a create that fails following
\* a successful delete the namespace holds a secret of the name exactly when
\* it held one before the failed create, which is the case only if another
\* caller's CreateSecret has created one since the delete; the failed create
\* itself changes nothing.
C20_FailurePaths ==
    [][ \A p \in CallerIds :
          /\ LookupErrorIgnored(p)
          /\ DeleteFailureReturns(p)
          /\ CreateFailsAfterDelete(p) =>
                /\ IsRetriable(secLog'[Len(secLog')].err)
                /\ secrets' = secrets
                /\ Named(secrets', SecretName) # {} => OtherWriterCreated(p)
      ]_vars

\* the only call so far found the secret, deleted it, failed to create the
\* new one, and left the namespace without a secret of the name
C20_Witness ==
    /\ Len(secLog) = 1
    /\ AllIdle
    /\ secLog[1].op = "CreateSecret"
    /\ secLog[1].deleted
    /\ secLog[1].faults = {"Secrets.Create"}
    /\ secLog[1].err = RetriableError(ConnRefused)
    /\ Named(secrets, SecretName) = {}

\* two CreateSecret calls of two callers have returned, in any interleaving
\* of their steps, none met a failing client or API call, and nothing else ran
TwoCallersDone ==
    /\ Len(secLog) = 2
    /\ AllIdle
    /\ secLog[1].caller # secLog[2].caller
    /\ \A i \in 1..2 : secLog[i].op = "CreateSecret" /\ secLog[i].faults = {}

\* the calls of the log that created their secret
Wrote == {k \in 1..Len(secLog) : secLog[k].op = "CreateSecret" /\ secLog[k].err = NilErr}

\* the final state of two concurrent calls: one secret of the name, holding
\* the bytes of the values of the last call whose create succeeded
LastWriteWins ==
    TwoCallersDone =>
        /\ Wrote # {}
        /\ Cardinality(Named(secrets, SecretName)) = 1
        /\ LET last == CHOOSE k \in Wrote : \A j \in Wrote : j <= k IN
           \A o \in Named(secrets, SecretName) :
              /\ DOMAIN o.Data = DOMAIN secLog[last].data
              /\ \A key \in DOMAIN o.Data :
                    /\ Len(o.Data[key]) = Len(secLog[last].data[key])
                    /\ \A i \in 1..Len(o.Data[key]) :
                          o.Data[key][i] = ByteOf(secLog[last].data[key][i])

\* a step in which the delete of caller p's CreateSecret succeeds: the
\* namespace holds no secret of the name after it, while the call goes on
AbsenceWindow(p) ==
    callers[p].pc = "delete" /\ callers'[p].pc = "create" =>
        /\ Named(secrets, SecretName) # {}
        /\ Named(secrets', SecretName) = {}
        /\ callers'[p].deleted

\* C21: when two callers run CreateSecret for the same name at the same time
\* and no client or API call fails, then in every interleaving of their
\* lookups, deletes and creates the namespace holds in the end exactly one
\* secret of the name, with the data of the call whose create succeeded
\* last; and every successful delete of a call leaves a state, before that
\* call's create, in which no secret of the name exists.
C21_ConcurrentCreatesLastWriteWins ==
    /\ [](LastWriteWins)
    /\ [][\A p \in CallerIds : AbsenceWindow(p)]_vars

\* both callers found the secret; one deleted it and created its own, the
\* delete of the other found nothing left and that call returned an error:
\* between the delete and the create no secret of the name existed
C21_Witness ==
    /\ TwoCallersDone
    /\ \E i, j \in 1..2 :
          /\ i # j
          /\ secLog[i].deleted
          /\ secLog[i].err = NilErr
          /\ secLog[j].err = RetriableError(RetriableError(NotFound(SecretName)))
    /\ Cardinality(Named(secrets, SecretName)) = 1

====
